---------------------------- MODULE Spec2Model ----------------------------
(***************************************************************************)
(* The invoice tax-computation core of the voice invoice generator:        *)
(*   GSTCalculator  (services/gst_calculator.py)                           *)
(*   InvoiceItem, Invoice  (models/invoice.py)                             *)
(*   Company, Customer  (models/company.py, models/customer.py)            *)
(*                                                                         *)
(* Representation of Python's Decimal values.  Every amount the code       *)
(* quantizes to Decimal('0.01') is an integer number of paise.  Amounts    *)
(* handed to GSTCalculator unquantized are integers in mills, MillsPerPaisa*)
(* to the paisa.  Percentages (GST rate, discount percentage) are integers *)
(* in units of 1/RateDen percent and quantities in units of 1/QtyDen.      *)
(* Decimal arithmetic on such values is exact at the default 28-digit      *)
(* context precision, so a quantize() of a product or quotient is the      *)
(* rounding of the exact rational num/den.                                 *)
(***************************************************************************)
EXTENDS Integers, Sequences, FiniteSets, TLC

VARIABLES
    gst_amount,     \* SpecGst: the amount argument (mills)
    gst_rate,       \* SpecGst: the gst_rate argument (1/RateDen percent)
    res_intra,      \* calculate_gst_breakdown(gst_amount, gst_rate, False)
    res_inter,      \* calculate_gst_breakdown(gst_amount, gst_rate, True)
    res_rev,        \* calculate_reverse_gst(res_intra.total_amount, gst_rate, False)
    res_revd,       \* calculate_reverse_gst(gst_amount, gst_rate, False)
    item_args,      \* SpecItem: the arguments of InvoiceItem(...)
    item,           \* SpecItem: the InvoiceItem constructed, or the error raised
    company,        \* Invoice.company: [state, gstin]
    customer,       \* Invoice.customer: [state, gstin]
    items,          \* Invoice.items
    interstate_read,\* the value a reader got from Invoice.is_interstate
    totals_read,    \* the values a reader got from the Invoice's totals
    tax_summary_read, \* the value a reader got from Invoice.get_tax_summary()
    items_op,       \* the last add_item / remove_item call or item assignment
    words_read,     \* SpecWords: an amount and its _amount_to_words
    HSN_DATABASE,   \* HSNValidator.HSN_DATABASE, entries in insertion order
    hsn_read,       \* the last HSNValidator call and what it returned, or its frame
    gstin_read,     \* SpecGstin: a validate_gstin call and what it returned
    rate_read,      \* SpecRate: a gst_rate and what the rate checks returned
    gen_read,       \* SpecGenerator: a create_invoice call and its outcome
    config_manager, \* SpecConfig: the ConfigManager object and the dicts it holds
    config_read     \* SpecConfig: the last ConfigManager call and what it returned

gst_vars == <<gst_amount, gst_rate, res_intra, res_inter, res_rev, res_revd>>

item_vars == <<item_args, item>>

invoice_vars ==
    <<company, customer, items, interstate_read, totals_read,
      tax_summary_read, items_op>>

config_vars == <<config_manager, config_read>>

service_vars ==
    <<words_read, HSN_DATABASE, hsn_read, gstin_read, rate_read, gen_read,
      config_vars>>

model_vars == <<gst_vars, item_vars, invoice_vars>>

vars == <<model_vars, service_vars>>

(***************************************************************************)
(* Resolution of the modelled inputs and the sizes of the input ranges.    *)
(***************************************************************************)
MillsPerPaisa == 10
RateDen == 10
QtyDen == 10
MaxPaise == 30
MaxItems == 3

Abs(x) == IF x < 0 THEN -x ELSE x

Sgn(x) == IF x < 0 THEN -1 ELSE 1

\* The same rounding under decimal's default, ROUND_HALF_EVEN.
quantize_half_even(num, den) ==
    LET n == Abs(num)
        q == n \div den
        r == n % den
        up == (2 * r > den) \/ (2 * r = den /\ q % 2 = 1)
    IN  Sgn(num) * (IF up THEN q + 1 ELSE q)

(***************************************************************************)
(* x.quantize(Decimal('0.01'), rounding=ROUND_HALF_UP) for x = num/den     *)
(* quanta, den > 0: the nearest integer, a tie going away from zero        *)
(* (decimal.ROUND_HALF_UP).                                                *)
(***************************************************************************)
quantize(num, den) ==
    LET n == Abs(num)
        q == n \div den
        r == n % den
    IN  Sgn(num) * (IF 2 * r >= den THEN q + 1 ELSE q)

(***************************************************************************)
(* (a * b / den).quantize(...): quantize(a * b, den), with the product     *)
(* split so that no intermediate leaves the range of TLC's 32-bit         *)
(* integers: |a| = q*den + r gives |a*b|/den = q*|b| + r*|b|/den.          *)
(***************************************************************************)
mul_quantize(a, b, den) ==
    LET x == Abs(a)
        y == Abs(b)
        q == x \div den
        r == x % den
    IN  Sgn(a) * Sgn(b) * (q * y + quantize(r * y, den))

NotCalled == [st |-> "none"]

Raise(type, msg) == [st |-> "raise", error |-> type, msg |-> msg]

(***************************************************************************)
(* GSTCalculator.calculate_gst_breakdown.  taxable_amount in mills,        *)
(* gst_rate in 1/RateDen percent; the amounts of the result in paise, its  *)
(* taxable_amount as given.  The result's cgst_rate, sgst_rate, igst_rate  *)
(* entries echo gst_rate (halved) and are left out.                        *)
(***************************************************************************)
\* The divisor if the rate were not halved.
half_rate_den_full == 100 * RateDen

\* half_rate = gst_rate / 2, then / 100: the divisor of taxable * rate.
half_rate_den == 2 * 100 * RateDen

\* The argument checks without the upper limit on the rate.
breakdown_valid_no_upper(taxable_amount, rate) ==
    IF taxable_amount < 0 THEN "Taxable amount cannot be negative"
    ELSE IF rate < 0 THEN "GST rate must be between 0 and 100"
    ELSE "ok"

\* The argument checks: "ok" or the message of the ValueError raised.
breakdown_valid(taxable_amount, rate) ==
    IF taxable_amount < 0 THEN "Taxable amount cannot be negative"
    ELSE IF rate < 0 \/ rate > 100 * RateDen
         THEN "GST rate must be between 0 and 100"
    ELSE "ok"

calculate_gst_breakdown(taxable_amount, rate, is_interstate) ==
    LET chk  == breakdown_valid(taxable_amount, rate)
        den  == MillsPerPaisa * 100 * RateDen
        igst == IF is_interstate
                THEN mul_quantize(taxable_amount, rate, den) ELSE 0
        cgst == IF is_interstate THEN 0
                ELSE mul_quantize(taxable_amount, rate,
                                  MillsPerPaisa * half_rate_den)
        sgst == IF is_interstate THEN 0
                ELSE mul_quantize(taxable_amount, rate,
                                  MillsPerPaisa * half_rate_den)
        tax  == IF is_interstate THEN igst ELSE cgst + sgst
    IN  IF chk # "ok" THEN Raise("ValueError", chk)
        ELSE [st |-> "ok",
              taxable_amount |-> taxable_amount,
              gst_rate |-> rate,
              cgst_amount |-> cgst,
              sgst_amount |-> sgst,
              igst_amount |-> igst,
              total_tax |-> tax,
              total_amount |->
                  quantize(taxable_amount + tax * MillsPerPaisa, MillsPerPaisa),
              gst_type |-> IF is_interstate THEN "IGST" ELSE "CGST_SGST"]

(***************************************************************************)
(* A reverse calculation that takes the tax off the total as a percentage  *)
(* of the total (total * (1 - rate/100)) instead of dividing.              *)
(***************************************************************************)
calculate_reverse_gst_subtract(total_amount, rate, is_interstate) ==
    LET one == 100 * RateDen
        taxable_paise ==
            mul_quantize(total_amount, one - rate, one * MillsPerPaisa)
    IN  IF total_amount < 0
        THEN Raise("ValueError", "Total amount cannot be negative")
        ELSE calculate_gst_breakdown(taxable_paise * MillsPerPaisa, rate,
                                     is_interstate)

(***************************************************************************)
(* GSTCalculator.calculate_reverse_gst.  total_amount in mills.  The       *)
(* divisor 1 + gst_rate/100 is (100*RateDen + rate)/(100*RateDen); the     *)
(* division raises decimal.DivisionByZero (InvalidOperation for 0/0) when  *)
(* it is zero.  A negative divisor gives a negative quotient, or -0 for a  *)
(* zero total, which the breakdown's own checks then see.                  *)
(***************************************************************************)
calculate_reverse_gst(total_amount, rate, is_interstate) ==
    LET one == 100 * RateDen
        divisor == one + rate
        taxable_paise ==
            IF divisor > 0
            THEN mul_quantize(total_amount, one, divisor * MillsPerPaisa)
            ELSE -mul_quantize(total_amount, one, (-divisor) * MillsPerPaisa)
    IN  IF total_amount < 0
        THEN Raise("ValueError", "Total amount cannot be negative")
        ELSE IF divisor = 0
        THEN IF total_amount = 0
             THEN Raise("InvalidOperation", "DivisionUndefined")
             ELSE Raise("DivisionByZero", "DivisionByZero")
        ELSE calculate_gst_breakdown(taxable_paise * MillsPerPaisa, rate,
                                     is_interstate)

(***************************************************************************)
(* Strings the code inspects character by character (state names, GSTINs)  *)
(* are sequences of one-character strings.  An Optional[str] is None or    *)
(* Some(chars).                                                            *)
(***************************************************************************)
None == [none |-> TRUE]

Some(chars) == [none |-> FALSE, s |-> chars]

\* Python truthiness of an Optional[str]: neither None nor "".
truthy(opt) == ~opt.none /\ Len(opt.s) > 0

\* s[:2]
prefix2(chars) == SubSeq(chars, 1, IF Len(chars) < 2 THEN Len(chars) ELSE 2)

IsSpace(c) == c \in {" ", "\t", "\n"}

RECURSIVE lstrip(_)
lstrip(chars) ==
    IF chars # <<>> /\ IsSpace(Head(chars)) THEN lstrip(Tail(chars)) ELSE chars

RECURSIVE rstrip(_)
rstrip(chars) ==
    IF chars # <<>> /\ IsSpace(chars[Len(chars)])
    THEN rstrip(SubSeq(chars, 1, Len(chars) - 1))
    ELSE chars

\* str.strip()
strip(chars) == rstrip(lstrip(chars))

LowerCase ==
    <<"a", "b", "c", "d", "e", "f", "g", "h", "i", "j", "k", "l", "m",
      "n", "o", "p", "q", "r", "s", "t", "u", "v", "w", "x", "y", "z">>

UpperCase ==
    <<"A", "B", "C", "D", "E", "F", "G", "H", "I", "J", "K", "L", "M",
      "N", "O", "P", "Q", "R", "S", "T", "U", "V", "W", "X", "Y", "Z">>

upper_char(c) ==
    IF \E i \in 1..Len(LowerCase) : LowerCase[i] = c
    THEN UpperCase[CHOOSE i \in 1..Len(LowerCase) : LowerCase[i] = c]
    ELSE c

\* str.upper()
upper(chars) == [i \in 1..Len(chars) |-> upper_char(chars[i])]

T_ANDHRAPRADESH ==
    <<"A", "N", "D", "H", "R", "A", "P", "R", "A", "D", "E", "S", "H">>

T_HIMACHALPRADESH ==
    <<"H", "I", "M", "A", "C", "H", "A", "L", "P", "R", "A", "D", "E", "S", "H">>

T_JAMMUKASHMIR ==
    <<"J", "A", "M", "M", "U", "K", "A", "S", "H", "M", "I", "R">>

T_MADHYAPRADESH ==
    <<"M", "A", "D", "H", "Y", "A", "P", "R", "A", "D", "E", "S", "H">>

T_ODISHA ==
    <<"O", "D", "I", "S", "H", "A">>

T_TAMILNADU ==
    <<"T", "A", "M", "I", "L", "N", "A", "D", "U">>

T_UTTARPRADESH ==
    <<"U", "T", "T", "A", "R", "P", "R", "A", "D", "E", "S", "H">>

T_WESTBENGAL ==
    <<"W", "E", "S", "T", "B", "E", "N", "G", "A", "L">>

\* Invoice.is_interstate's state_mapping dictionary, as (key, value) pairs.
state_mapping ==
    { <<<<"O", "D", "I", "S", "H", "A">>,
        T_ODISHA>>,
      <<<<"O", "R", "I", "S", "S", "A">>,
        T_ODISHA>>,
      <<<<"W", "E", "S", "T", " ", "B", "E", "N", "G", "A", "L">>,
        T_WESTBENGAL>>,
      <<<<"W", "E", "S", "T", "B", "E", "N", "G", "A", "L">>,
        T_WESTBENGAL>>,
      <<<<"T", "A", "M", "I", "L", " ", "N", "A", "D", "U">>,
        T_TAMILNADU>>,
      <<<<"T", "A", "M", "I", "L", "N", "A", "D", "U">>,
        T_TAMILNADU>>,
      <<<<"U", "T", "T", "A", "R", " ", "P", "R", "A", "D", "E", "S", "H">>,
        T_UTTARPRADESH>>,
      <<<<"U", "T", "T", "A", "R", "P", "R", "A", "D", "E", "S", "H">>,
        T_UTTARPRADESH>>,
      <<<<"M", "A", "D", "H", "Y", "A", " ", "P", "R", "A", "D", "E", "S", "H">>,
        T_MADHYAPRADESH>>,
      <<<<"M", "A", "D", "H", "Y", "A", "P", "R", "A", "D", "E", "S", "H">>,
        T_MADHYAPRADESH>>,
      <<<<"H", "I", "M", "A", "C", "H", "A", "L", " ", "P", "R", "A", "D", "E", "S", "H">>,
        T_HIMACHALPRADESH>>,
      <<<<"H", "I", "M", "A", "C", "H", "A", "L", "P", "R", "A", "D", "E", "S", "H">>,
        T_HIMACHALPRADESH>>,
      <<<<"A", "N", "D", "H", "R", "A", " ", "P", "R", "A", "D", "E", "S", "H">>,
        T_ANDHRAPRADESH>>,
      <<<<"A", "N", "D", "H", "R", "A", "P", "R", "A", "D", "E", "S", "H">>,
        T_ANDHRAPRADESH>>,
      <<<<"J", "A", "M", "M", "U", " ", "A", "N", "D", " ", "K", "A", "S", "H", "M", "I", "R">>,
        T_JAMMUKASHMIR>>,
      <<<<"J", "A", "M", "M", "U", "K", "A", "S", "H", "M", "I", "R">>,
        T_JAMMUKASHMIR>>,
      <<<<"J", "&", "K">>,
        T_JAMMUKASHMIR>> }

\* state_mapping.get(name, name)
state_mapping_get(name) ==
    IF \E kv \in state_mapping : kv[1] = name
    THEN (CHOOSE kv \in state_mapping : kv[1] = name)[2]
    ELSE name

\* The same lookup without the alias table.
normalize_state_no_table(state) == upper(strip(state))

normalize_state(state) == state_mapping_get(upper(strip(state)))

(***************************************************************************)
(* Company / Customer.  Only state and gstin reach the tax computation;    *)
(* the constructors' checks are on name and address.                       *)
(***************************************************************************)
Party(state, gstin) == [state |-> state, gstin |-> gstin]

is_gst_registered(party) == ~party.gstin.none /\ Len(party.gstin.s) = 15

(***************************************************************************)
(* Invoice.is_interstate                                                   *)
(***************************************************************************)
is_interstate(co, cu) ==
    IF truthy(co.gstin) /\ truthy(cu.gstin)
    THEN prefix2(co.gstin.s) # prefix2(cu.gstin.s)
    ELSE normalize_state(co.state) # normalize_state(cu.state)

(***************************************************************************)
(* SpecGst: the calculator applied to one pair of arguments.               *)
(***************************************************************************)
Paise(p) == p * MillsPerPaisa

Rupees(r) == Paise(100 * r)

Percent(p) == p * RateDen

GstAmounts ==
    { Paise(p) : p \in 0..MaxPaise }
    \cup { 1, 4, 5, 6, Paise(1) + 5, -1, -Paise(1),
           Rupees(1000), Rupees(1180), Rupees(61750) }

GstRates ==
    { Percent(p) : p \in {0, 3, 5, 12, 18, 28, 99, 100} }
    \cup { 1, 5, 15, Percent(100) + 1, -1, -Percent(50), -Percent(100),
           -Percent(150) }

GstUnused ==
    /\ gst_amount = 0
    /\ gst_rate = 0
    /\ res_intra = NotCalled
    /\ res_inter = NotCalled
    /\ res_rev = NotCalled
    /\ res_revd = NotCalled

ItemUnused ==
    /\ item_args = <<>>
    /\ item = NotCalled

InvoiceUnused ==
    /\ company = Party(<<>>, None)
    /\ customer = Party(<<>>, None)
    /\ items = <<>>
    /\ interstate_read = NotCalled
    /\ totals_read = NotCalled
    /\ tax_summary_read = NotCalled
    /\ items_op = NotCalled

\* No ConfigManager constructed.
ConfigUnused ==
    /\ config_manager = NotCalled
    /\ config_read = NotCalled

\* No service call made; services.hsn_validator not imported.
ServiceUnused ==
    /\ words_read = NotCalled
    /\ HSN_DATABASE = <<>>
    /\ hsn_read = NotCalled
    /\ gstin_read = NotCalled
    /\ rate_read = NotCalled
    /\ gen_read = NotCalled
    /\ ConfigUnused

InitGst ==
    /\ gst_amount \in GstAmounts
    /\ gst_rate \in GstRates
    /\ res_intra = NotCalled
    /\ res_inter = NotCalled
    /\ res_rev = NotCalled
    /\ res_revd = NotCalled
    /\ ItemUnused
    /\ InvoiceUnused
    /\ ServiceUnused

CallBreakdownIntra ==
    /\ res_intra = NotCalled
    /\ res_intra' = calculate_gst_breakdown(gst_amount, gst_rate, FALSE)
    /\ UNCHANGED <<gst_amount, gst_rate, res_inter, res_rev, res_revd>>
    /\ UNCHANGED <<item_vars, invoice_vars, service_vars>>

CallBreakdownInter ==
    /\ res_inter = NotCalled
    /\ res_inter' = calculate_gst_breakdown(gst_amount, gst_rate, TRUE)
    /\ UNCHANGED <<gst_amount, gst_rate, res_intra, res_rev, res_revd>>
    /\ UNCHANGED <<item_vars, invoice_vars, service_vars>>

CallReverseOfTotal ==
    /\ res_intra.st = "ok"
    /\ res_rev = NotCalled
    /\ res_rev' = calculate_reverse_gst(Paise(res_intra.total_amount),
                                        gst_rate, FALSE)
    /\ UNCHANGED <<gst_amount, gst_rate, res_intra, res_inter, res_revd>>
    /\ UNCHANGED <<item_vars, invoice_vars, service_vars>>

CallReverse ==
    /\ res_revd = NotCalled
    /\ res_revd' = calculate_reverse_gst(gst_amount, gst_rate, FALSE)
    /\ UNCHANGED <<gst_amount, gst_rate, res_intra, res_inter, res_rev>>
    /\ UNCHANGED <<item_vars, invoice_vars, service_vars>>

NextGst ==
    \/ CallBreakdownIntra
    \/ CallBreakdownInter
    \/ CallReverseOfTotal
    \/ CallReverse

SpecGst == InitGst /\ [][NextGst]_vars

(***************************************************************************)
(* InvoiceItem.  quantity in 1/QtyDen, unit_price and discount_amount in   *)
(* paise, gst_rate and discount_percentage in 1/RateDen percent.  The      *)
(* description, hsn_code and unit fields take no part in any amount.       *)
(***************************************************************************)
\* The checks with quantity < 0 in place of quantity <= 0.
item_valid_negative_quantity_only(quantity, unit_price, rate) ==
    IF quantity < 0 THEN "Quantity must be greater than 0"
    ELSE IF unit_price < 0 THEN "Unit price cannot be negative"
    ELSE IF rate < 0 \/ rate > 100 * RateDen
         THEN "GST rate must be between 0 and 100"
    ELSE "ok"

\* __post_init__'s checks: "ok" or the message of the ValueError raised.
item_valid(quantity, unit_price, rate) ==
    IF quantity <= 0 THEN "Quantity must be greater than 0"
    ELSE IF unit_price < 0 THEN "Unit price cannot be negative"
    ELSE IF rate < 0 \/ rate > 100 * RateDen
         THEN "GST rate must be between 0 and 100"
    ELSE "ok"

InvoiceItem(quantity, unit_price, rate, discount_percentage, discount_amount) ==
    LET chk == item_valid(quantity, unit_price, rate)
    IN  IF chk # "ok" THEN Raise("ValueError", chk)
        ELSE [st |-> "ok",
              quantity |-> quantity,
              unit_price |-> unit_price,
              gst_rate |-> rate,
              discount_percentage |-> discount_percentage,
              discount_amount |-> discount_amount]

\* The item with its description and hsn_code fields, which no check reads.
InvoiceItemFull(description, hsn_code, quantity, unit_price, rate, discount_percentage, discount_amount) ==
    LET it == InvoiceItem(quantity, unit_price, rate, discount_percentage,
                          discount_amount)
    IN  IF it.st # "ok" THEN it
        ELSE [f \in DOMAIN it \cup {"description", "hsn_code"} |->
                 IF f = "description" THEN description
                 ELSE IF f = "hsn_code" THEN hsn_code
                 ELSE it[f]]

gross_amount(it) == mul_quantize(it.unit_price, it.quantity, QtyDen)

total_discount(it) ==
    LET percentage_discount ==
            mul_quantize(gross_amount(it), it.discount_percentage,
                         100 * RateDen)
    IN  quantize(percentage_discount + it.discount_amount, 1)

taxable_amount(it) == quantize(gross_amount(it) - total_discount(it), 1)

cgst_amount(it) ==
    mul_quantize(taxable_amount(it), it.gst_rate, 2 * 100 * RateDen)

sgst_amount(it) ==
    mul_quantize(taxable_amount(it), it.gst_rate, 2 * 100 * RateDen)

igst_amount(it) ==
    mul_quantize(taxable_amount(it), it.gst_rate, 100 * RateDen)

total_tax_amount(it) == quantize(cgst_amount(it) + sgst_amount(it), 1)

total_amount(it) == quantize(taxable_amount(it) + total_tax_amount(it), 1)

(***************************************************************************)
(* SpecItem: one construction of an InvoiceItem.                           *)
(***************************************************************************)
Qty(n) == n * QtyDen

ItemArgs(q, p, r, dp, da) ==
    [quantity |-> q, unit_price |-> p, gst_rate |-> r,
     discount_percentage |-> dp, discount_amount |-> da]

LaptopArgs == ItemArgs(Qty(1), 6500000, Percent(18), Percent(5), 0)

ItemQuantities == { -Qty(1), 0, 1, 5, Qty(1), Qty(1) + 5, Qty(3) }

ItemUnitPrices == { -1, 0, 1, 3, 10, 99, 250, 10000 }

ItemRates ==
    { -1, 0, 5, Percent(5), Percent(18), Percent(100), Percent(100) + 1 }

ItemDiscountPercentages ==
    { -Percent(10), 0, 25, Percent(5), Percent(100), Percent(150) }

ItemDiscountAmounts == { -5, 0, 1, 50, 20000 }

ItemArgSets ==
    { ItemArgs(q, p, r, dp, da) :
        q \in ItemQuantities, p \in ItemUnitPrices, r \in ItemRates,
        dp \in ItemDiscountPercentages, da \in ItemDiscountAmounts }
    \cup { LaptopArgs }

InitItem ==
    /\ item_args \in ItemArgSets
    /\ item = NotCalled
    /\ GstUnused
    /\ InvoiceUnused
    /\ ServiceUnused

ConstructItem ==
    /\ item = NotCalled
    /\ item' = InvoiceItem(item_args.quantity, item_args.unit_price,
                           item_args.gst_rate, item_args.discount_percentage,
                           item_args.discount_amount)
    /\ UNCHANGED <<item_args, gst_vars, invoice_vars, service_vars>>

NextItem == ConstructItem

SpecItem == InitItem /\ [][NextItem]_vars

(***************************************************************************)
(* Python numbers at the Invoice level.  sum() of no items is the int 0,   *)
(* of Decimals a Decimal; int + int is an int; only a Decimal has          *)
(* quantize().  v is in paise.                                             *)
(***************************************************************************)
PyInt(n) == [st |-> "ok", ty |-> "int", v |-> n]

PyDecimal(n) == [st |-> "ok", ty |-> "Decimal", v |-> n]

RECURSIVE py_sum_from(_, _)
py_sum_from(acc, amounts) ==
    IF amounts = <<>> THEN acc
    ELSE py_sum_from(PyDecimal(acc.v + Head(amounts)), Tail(amounts))

\* sum(<generator of Decimal>): 0 + a1 + a2 + ...
py_sum(amounts) == py_sum_from(PyInt(0), amounts)

py_add(a, b) ==
    [st |-> "ok",
     ty |-> IF a.ty = "Decimal" \/ b.ty = "Decimal" THEN "Decimal" ELSE "int",
     v  |-> a.v + b.v]

\* x.quantize(Decimal('0.01'), rounding=ROUND_HALF_UP)
py_quantize(x) ==
    IF x.ty = "Decimal" THEN PyDecimal(quantize(x.v, 1))
    ELSE Raise("AttributeError", "'int' object has no attribute 'quantize'")

(***************************************************************************)
(* Invoice: [company, customer, items].  Its totals are properties,        *)
(* computed from the fields at each access.                                *)
(***************************************************************************)
Invoice(co, cu, its) == [company |-> co, customer |-> cu, items |-> its]

\* An add_item that puts the new item first.
add_item_first(its, x) == <<x>> \o its

add_item(its, x) == Append(its, x)

\* A remove_item that takes a negative index as del self.items[index] would.
remove_item_from_end(its, index) ==
    LET at == IF index < 0 THEN index + Len(its) ELSE index
    IN  IF 0 <= at /\ at < Len(its)
        THEN SubSeq(its, 1, at) \o SubSeq(its, at + 2, Len(its))
        ELSE its

\* index is Python's, from 0.
remove_item(its, index) ==
    IF 0 <= index /\ index < Len(its)
    THEN SubSeq(its, 1, index) \o SubSeq(its, index + 2, Len(its))
    ELSE its

inv_is_interstate(inv) == is_interstate(inv.company, inv.customer)

total_gross_amount(inv) ==
    py_sum([i \in 1..Len(inv.items) |-> gross_amount(inv.items[i])])

total_discount_amount(inv) ==
    py_sum([i \in 1..Len(inv.items) |-> total_discount(inv.items[i])])

total_taxable_amount(inv) ==
    py_sum([i \in 1..Len(inv.items) |-> taxable_amount(inv.items[i])])

total_cgst_amount(inv) ==
    IF inv_is_interstate(inv) THEN PyDecimal(0)
    ELSE py_sum([i \in 1..Len(inv.items) |-> cgst_amount(inv.items[i])])

total_sgst_amount(inv) ==
    IF inv_is_interstate(inv) THEN PyDecimal(0)
    ELSE py_sum([i \in 1..Len(inv.items) |-> sgst_amount(inv.items[i])])

total_igst_amount(inv) ==
    IF ~inv_is_interstate(inv) THEN PyDecimal(0)
    ELSE py_sum([i \in 1..Len(inv.items) |-> igst_amount(inv.items[i])])

\* Invoice.total_tax_amount
invoice_total_tax_amount(inv) ==
    IF inv_is_interstate(inv) THEN total_igst_amount(inv)
    ELSE py_add(total_cgst_amount(inv), total_sgst_amount(inv))

total_invoice_amount(inv) ==
    py_quantize(py_add(total_taxable_amount(inv), invoice_total_tax_amount(inv)))

(***************************************************************************)
(* Invoice._amount_to_words, amount in paise.  Lists are indexed from 1    *)
(* here, so ones[n] of the code is ones[n + 1].                            *)
(***************************************************************************)
ones ==
    <<"", "One", "Two", "Three", "Four", "Five", "Six", "Seven", "Eight",
      "Nine">>

teens ==
    <<"Ten", "Eleven", "Twelve", "Thirteen", "Fourteen", "Fifteen",
      "Sixteen", "Seventeen", "Eighteen", "Nineteen">>

tens ==
    <<"", "", "Twenty", "Thirty", "Forty", "Fifty", "Sixty", "Seventy",
      "Eighty", "Ninety">>

\* ones[num // 100] is out of range from 1000 on.
convert_hundreds(num) ==
    LET n1 == IF num >= 100 THEN num % 100 ELSE num
        n2 == IF n1 >= 20 THEN n1 % 10 ELSE n1
        p1 == IF num >= 100 THEN ones[num \div 100 + 1] \o " Hundred " ELSE ""
        p2 == IF n1 >= 20 THEN tens[n1 \div 10 + 1] \o " "
              ELSE IF n1 >= 10 THEN teens[n1 - 10 + 1] \o " "
              ELSE ""
        p3 == IF n1 >= 10 /\ n1 < 20 THEN ""
              ELSE IF n2 > 0 THEN ones[n2 + 1] \o " "
              ELSE ""
    IN  IF num >= 1000
        THEN Raise("IndexError", "list index out of range")
        ELSE [st |-> "ok", s |-> p1 \o p2 \o p3]

\* 10000000, the crore of _amount_to_words.
Crore == 10000000

(***************************************************************************)
(* The body of _amount_to_words for an amount whose int(amount) is         *)
(* crores * 10000000 + rest, 0 <= rest < 10000000 when crores > 0, and     *)
(* whose int((amount - rupees) * 100) is paise.  Python's int is           *)
(* unbounded; the split keeps each part within the integers of the model   *)
(* checker.                                                                *)
(***************************************************************************)
amount_to_words_parts(crores, rest, paise) ==
    LET r1      == rest                       \* after rupees %= 10000000
        lakhs   == r1 \div 100000
        r2      == IF r1 >= 100000 THEN r1 % 100000 ELSE r1
        thousands == r2 \div 1000
        r3      == IF r2 >= 1000 THEN r2 % 1000 ELSE r2
        c  == IF crores >= 1 THEN convert_hundreds(crores)
              ELSE [st |-> "ok", s |-> ""]
        l  == IF r1 >= 100000 THEN convert_hundreds(lakhs)
              ELSE [st |-> "ok", s |-> ""]
        t  == IF r2 >= 1000 THEN convert_hundreds(thousands)
              ELSE [st |-> "ok", s |-> ""]
        h  == IF r3 > 0 THEN convert_hundreds(r3) ELSE [st |-> "ok", s |-> ""]
        p  == IF paise > 0 THEN convert_hundreds(paise)
              ELSE [st |-> "ok", s |-> ""]
    IN  IF crores = 0 /\ rest = 0 /\ paise = 0
        THEN [st |-> "ok", s |-> "Zero Rupees Only"]
        ELSE IF c.st # "ok" THEN c
        ELSE [st |-> "ok",
              s |-> (IF crores >= 1 THEN c.s \o "Crore " ELSE "")
                    \o (IF r1 >= 100000 THEN l.s \o "Lakh " ELSE "")
                    \o (IF r2 >= 1000 THEN t.s \o "Thousand " ELSE "")
                    \o h.s \o "Rupees"
                    \o (IF paise > 0 THEN " and " \o p.s \o "Paise" ELSE "")
                    \o " Only"]

\* _amount_to_words for an amount in paise.
amount_to_words(amount) ==
    LET rupees == Sgn(amount) * (Abs(amount) \div 100)   \* int(amount)
        paise  == amount - rupees * 100   \* int((amount - rupees) * 100)
    IN  IF rupees >= Crore
        THEN amount_to_words_parts(rupees \div Crore, rupees % Crore, paise)
        ELSE amount_to_words_parts(0, rupees, paise)

total_amount_in_words(inv) ==
    LET total == total_invoice_amount(inv)
    IN  IF total.st # "ok" THEN total ELSE amount_to_words(total.v)

\* One access to each derived total of the invoice.
read_totals(inv) ==
    [st |-> "ok",
     total_gross_amount    |-> total_gross_amount(inv),
     total_discount_amount |-> total_discount_amount(inv),
     total_taxable_amount  |-> total_taxable_amount(inv),
     total_cgst_amount     |-> total_cgst_amount(inv),
     total_sgst_amount     |-> total_sgst_amount(inv),
     total_igst_amount     |-> total_igst_amount(inv),
     total_tax_amount      |-> invoice_total_tax_amount(inv),
     total_invoice_amount  |-> total_invoice_amount(inv),
     total_amount_in_words |-> total_amount_in_words(inv)]

(***************************************************************************)
(* Invoice.get_tax_summary.  The dict is the sequence of its entries in     *)
(* insertion order, each entry with its key in the field rate.  The key is *)
(* float(item.gst_rate); float() is one-to-one on decimals of up to 15     *)
(* significant digits and the keys are only compared for equality, so the  *)
(* key is represented by the rate it is the float of.                      *)
(***************************************************************************)
summary_key(it) == it.gst_rate

\* Only the entry added last is looked at, as when grouping consecutive items.
summary_index_last_only(summary, rate) ==
    IF summary # <<>> /\ summary[Len(summary)].rate = rate
    THEN Len(summary)
    ELSE 0

\* The position of the entry with the key, 0 for `rate not in tax_summary`.
summary_index(summary, rate) ==
    IF \E k \in 1..Len(summary) : summary[k].rate = rate
    THEN CHOOSE k \in 1..Len(summary) : summary[k].rate = rate
    ELSE 0

summary_add(summary, it, interstate) ==
    LET rate == summary_key(it)
        s0 == IF summary_index(summary, rate) = 0
              THEN Append(summary,
                          [rate |-> rate, taxable_amount |-> 0,
                           cgst_amount |-> 0, sgst_amount |-> 0,
                           igst_amount |-> 0, total_tax |-> 0])
              ELSE summary
        k  == summary_index(s0, rate)
        e  == s0[k]
    IN  [s0 EXCEPT ![k] =
            [rate |-> e.rate,
             taxable_amount |-> e.taxable_amount + taxable_amount(it),
             cgst_amount |-> IF interstate THEN e.cgst_amount
                             ELSE e.cgst_amount + cgst_amount(it),
             sgst_amount |-> IF interstate THEN e.sgst_amount
                             ELSE e.sgst_amount + sgst_amount(it),
             igst_amount |-> IF interstate THEN e.igst_amount + igst_amount(it)
                             ELSE e.igst_amount,
             total_tax |-> e.total_tax + total_tax_amount(it)]]

RECURSIVE tax_summary_from(_, _, _)
tax_summary_from(summary, its, interstate) ==
    IF its = <<>> THEN summary
    ELSE tax_summary_from(summary_add(summary, Head(its), interstate),
                          Tail(its), interstate)

get_tax_summary(inv) ==
    [st |-> "ok",
     entries |-> tax_summary_from(<<>>, inv.items, inv_is_interstate(inv))]

(***************************************************************************)
(* SpecParty: Invoice.is_interstate read for one seller and one buyer.     *)
(***************************************************************************)
G_Seller27 == <<"2", "7", "A", "A", "B", "C", "S", "1", "2", "3", "4", "C", "1", "Z", "S">>

G_Buyer07 == <<"0", "7", "A", "A", "B", "C", "C", "1", "2", "3", "4", "D", "1", "Z", "F">>

G_Buyer27 == <<"2", "7", "A", "A", "B", "C", "C", "1", "2", "3", "4", "D", "1", "Z", "F">>

G_Short27 == <<"2", "7", "A", "B">>

G_Short07 == <<"0", "7">>

G_Long27 == <<"2", "7", "A", "A", "B", "C", "S", "1", "2", "3", "4", "C", "1", "Z", "S", "X">>

\* IDs that validate_gstin accepts, two of them entered with a leading blank.
G_Valid27 == <<"2", "7", "A", "A", "B", "C", "S", "1", "2", "3", "4", "C", "1", "Z", "Z">>

G_Valid07 == <<"0", "7", "A", "A", "B", "C", "C", "1", "2", "3", "4", "D", "1", "Z", "Z">>

G_Blank27 == <<" ">> \o G_Valid27

G_Blank29 == <<" ", "2", "9", "A", "A", "B", "C", "S", "1", "2", "3", "4", "C", "1", "Z", "Z">>

PartyGstins ==
    { None, Some(<<>>), Some(G_Seller27), Some(G_Buyer07), Some(G_Buyer27),
      Some(G_Short27), Some(G_Short07), Some(G_Long27),
      Some(G_Valid27), Some(G_Valid07), Some(G_Blank27), Some(G_Blank29) }

(***************************************************************************)
(* State names as entered, each with the state it names (token), written   *)
(* out by hand: the reference the classification is compared with.         *)
(***************************************************************************)
StateSpellings ==
    { [text |-> <<"O", "r", "i", "s", "s", "a">>, token |-> "ODISHA"],
      [text |-> <<" ", "o", "d", "i", "s", "h", "a", " ">>, token |-> "ODISHA"],
      [text |-> <<"W", "e", "s", "t", " ", "B", "e", "n", "g", "a", "l">>, token |-> "WESTBENGAL"],
      [text |-> <<"W", "E", "S", "T", "B", "E", "N", "G", "A", "L">>, token |-> "WESTBENGAL"],
      [text |-> <<"W", "e", "s", "t", " ", " ", "B", "e", "n", "g", "a", "l">>, token |-> "WEST  BENGAL"],
      [text |-> <<"J", "&", "K">>, token |-> "JAMMUKASHMIR"],
      [text |-> <<"J", "a", "m", "m", "u", " ", "a", "n", "d", " ", "K", "a", "s", "h", "m", "i", "r">>, token |-> "JAMMUKASHMIR"],
      [text |-> <<"D", "e", "l", "h", "i">>, token |-> "DELHI"],
      [text |-> <<"\t", "d", "e", "l", "h", "i", " ">>, token |-> "DELHI"],
      [text |-> <<"M", "a", "h", "a", "r", "a", "s", "h", "t", "r", "a">>, token |-> "MAHARASHTRA"],
      [text |-> <<"t", "a", "m", "i", "l", " ", "n", "a", "d", "u">>, token |-> "TAMILNADU"],
      [text |-> <<"T", "a", "m", "i", "l", "n", "a", "d", "u">>, token |-> "TAMILNADU"] }

PartyStates == { sp.text : sp \in StateSpellings }

InitParty ==
    /\ company \in { Party(st, g) : st \in PartyStates, g \in PartyGstins }
    /\ customer \in { Party(st, g) : st \in PartyStates, g \in PartyGstins }
    /\ items = <<>>
    /\ interstate_read = NotCalled
    /\ totals_read = NotCalled
    /\ tax_summary_read = NotCalled
    /\ items_op = NotCalled
    /\ GstUnused
    /\ ItemUnused
    /\ ServiceUnused

ReadIsInterstate ==
    /\ interstate_read = NotCalled
    /\ interstate_read' =
           [st |-> "ok", value |-> is_interstate(company, customer)]
    /\ UNCHANGED <<company, customer, items, totals_read, tax_summary_read,
                   items_op, gst_vars, item_vars,
                   service_vars>>

NextParty == ReadIsInterstate

SpecParty == InitParty /\ [][NextParty]_vars

(***************************************************************************)
(* SpecInvoice: an Invoice whose items are appended and removed and whose  *)
(* totals are read.  A mutation ends the period the last read speaks for.  *)
(***************************************************************************)
InvoiceItems ==
    { InvoiceItemFull("Laptop", <<"8", "4", "7", "1">>,
                      Qty(1), 10000, Percent(18), 0, 0),
      InvoiceItemFull("Rice", <<"1", "0", "0", "6">>,
                      5, 99, Percent(5), 25, 1),
      InvoiceItemFull("Keyboard", <<"8", "4", "7", "3">>,
                      Qty(3), 250, Percent(18), Percent(5), 0),
      InvoiceItemFull("Cable", <<"8", "5", "4", "4">>,
                      Qty(1), 50, Percent(18), 0, 0) }

InvoiceParties ==
    { <<Party(<<"D", "e", "l", "h", "i">>, None), Party(<<"d", "e", "l", "h", "i", " ">>, None)>>,
      <<Party(<<"O", "r", "i", "s", "s", "a">>, None), Party(<<"W", "e", "s", "t", " ", "B", "e", "n", "g", "a", "l">>, Some(G_Buyer07))>>,
      <<Party(<<"M", "a", "h", "a", "r", "a", "s", "h", "t", "r", "a">>, Some(G_Seller27)),
        Party(<<"D", "e", "l", "h", "i">>, Some(G_Buyer07))>> }

InitInvoice ==
    /\ \E p \in InvoiceParties : company = p[1] /\ customer = p[2]
    /\ items \in { <<>> } \cup { <<x>> : x \in InvoiceItems }
    /\ interstate_read = NotCalled
    /\ totals_read = NotCalled
    /\ tax_summary_read = NotCalled
    /\ items_op = NotCalled
    /\ GstUnused
    /\ ItemUnused
    /\ ServiceUnused

AddItem ==
    /\ Len(items) < MaxItems
    /\ \E x \in InvoiceItems :
           /\ items' = add_item(items, x)
           /\ items_op' = [st |-> "ok", op |-> "add_item", item |-> x]
    /\ totals_read' = NotCalled
    /\ tax_summary_read' = NotCalled
    /\ UNCHANGED <<company, customer, interstate_read, gst_vars, item_vars,
                   service_vars>>

RemoveItem ==
    /\ \E index \in -1..MaxItems :
           /\ items' = remove_item(items, index)
           /\ items_op' = [st |-> "ok", op |-> "remove_item", index |-> index]
    /\ totals_read' = NotCalled
    /\ tax_summary_read' = NotCalled
    /\ UNCHANGED <<company, customer, interstate_read, gst_vars, item_vars,
                   service_vars>>

ReadTotals ==
    /\ totals_read' = read_totals(Invoice(company, customer, items))
    /\ UNCHANGED <<company, customer, items, interstate_read,
                   tax_summary_read, items_op, gst_vars, item_vars,
                   service_vars>>

ReadTaxSummary ==
    /\ tax_summary_read' = get_tax_summary(Invoice(company, customer, items))
    /\ UNCHANGED <<company, customer, items, interstate_read, totals_read,
                   items_op, gst_vars, item_vars,
                   service_vars>>

NextInvoice ==
    \/ AddItem
    \/ RemoveItem
    \/ ReadTotals
    \/ ReadTaxSummary

SpecInvoice == InitInvoice /\ [][NextInvoice]_vars

(***************************************************************************)
(* SpecWords: _amount_to_words applied to one amount.  The amount is       *)
(* [crores, rest, paise]: crores * 10000000 + rest rupees and paise.       *)
(***************************************************************************)
WordsAmounts ==
    { [crores |-> c, rest |-> r, paise |-> p] :
        c \in {0, 1, 12, 99, 100, 101, 999, 1000, 1001, 25000},
        r \in {0, 1, 9, 10, 11, 19, 20, 21, 99, 100, 101, 110, 999, 1000,
               1001, 72865, 99999, 100000, 100001, 1234567, Crore - 1},
        p \in {0, 1, 5, 10, 19, 50, 99} }

InitWords ==
    /\ words_read = NotCalled
    /\ HSN_DATABASE = <<>>
    /\ hsn_read = NotCalled
    /\ gstin_read = NotCalled
    /\ rate_read = NotCalled
    /\ gen_read = NotCalled
    /\ GstUnused
    /\ ItemUnused
    /\ InvoiceUnused
    /\ ConfigUnused

CallAmountToWords ==
    /\ words_read = NotCalled
    /\ \E a \in WordsAmounts :
           words_read' =
               [st |-> "ok", amount |-> a,
                words |-> amount_to_words_parts(a.crores, a.rest, a.paise)]
    /\ UNCHANGED <<HSN_DATABASE, hsn_read, gstin_read, rate_read, gen_read>>
    /\ UNCHANGED <<model_vars, config_vars>>

NextWords == CallAmountToWords

SpecWords == InitWords /\ [][NextWords]_vars

(***************************************************************************)
(* HSNValidator (services/hsn_validator.py).  HSN_DATABASE is a dict:      *)
(* here the sequence of its entries [code, info] in insertion order.  An   *)
(* info dict is [description, typical_gst, keywords]; an entry made by     *)
(* add_custom_hsn has no 'keywords' key (KeyAbsent).  Codes, keywords and  *)
(* item descriptions are sequences of one-character strings.               *)
(***************************************************************************)
KeyAbsent == [absent |-> TRUE]

KeyList(l) == [absent |-> FALSE, list |-> l]

Info(description, typical_gst, keywords) ==
    [description |-> description, typical_gst |-> typical_gst,
     keywords |-> keywords]

Entry(code, description, typical_gst, keywords) ==
    [code |-> code, info |-> Info(description, typical_gst, keywords)]

\* The dict the class body builds; of the two "0713" items the later value
\* stands at the earlier position.
HSN_DATABASE_literal ==
    <<
      Entry(<<"1", "0", "0", "1">>,
            "Wheat and meslin", Percent(0),
            KeyList(<<
                <<"w", "h", "e", "a", "t">>,
                <<"m", "e", "s", "l", "i", "n">>, <<"g", "r", "a", "i", "n">>>>)),
      Entry(<<"1", "0", "0", "6">>,
            "Rice", Percent(5),
            KeyList(<<
                <<"r", "i", "c", "e">>,
                <<"b", "a", "s", "m", "a", "t", "i">>,
                <<"p", "a", "d", "d", "y">>>>)),
      Entry(<<"1", "7", "0", "1">>,
            "Cane or beet sugar", Percent(5),
            KeyList(<<
                <<"s", "u", "g", "a", "r">>, <<"c", "a", "n", "e">>,
                <<"b", "e", "e", "t">>,
                <<"s", "w", "e", "e", "t", "e", "n", "e", "r">>>>)),
      Entry(<<"1", "7", "0", "4">>,
            "Sugar confectionery", Percent(18),
            KeyList(<<
                <<"c", "a", "n", "d", "y">>,
                <<"c", "h", "o", "c", "o", "l", "a", "t", "e">>,
                <<"c", "o", "n", "f", "e", "c", "t", "i", "o", "n", "e", "r", "y">>,
                <<"s", "w", "e", "e", "t">>>>)),
      Entry(<<"0", "7", "1", "3">>,
            "Dried leguminous vegetables", Percent(0),
            KeyList(<<
                <<"p", "u", "l", "s", "e">>, <<"d", "a", "l">>,
                <<"l", "e", "n", "t", "i", "l">>,
                <<"c", "h", "i", "c", "k", "p", "e", "a">>,
                <<"g", "r", "a", "m">>>>)),
      Entry(<<"0", "9", "0", "1">>,
            "Coffee", Percent(5),
            KeyList(<<
                <<"c", "o", "f", "f", "e", "e">>,
                <<"b", "e", "a", "n", "s">>,
                <<"i", "n", "s", "t", "a", "n", "t", " ", "c", "o", "f", "f", "e", "e">>>>)),
      Entry(<<"0", "9", "0", "2">>,
            "Tea", Percent(5),
            KeyList(<<
                <<"t", "e", "a">>, <<"c", "h", "a", "i">>,
                <<"g", "r", "e", "e", "n", " ", "t", "e", "a">>,
                <<"b", "l", "a", "c", "k", " ", "t", "e", "a">>>>)),
      Entry(<<"5", "2", "0", "8">>,
            "Woven fabrics of cotton", Percent(5),
            KeyList(<<
                <<"c", "o", "t", "t", "o", "n">>,
                <<"f", "a", "b", "r", "i", "c">>,
                <<"c", "l", "o", "t", "h">>,
                <<"t", "e", "x", "t", "i", "l", "e">>>>)),
      Entry(<<"6", "1", "0", "9">>,
            "T-shirts, singlets and other vests", Percent(12),
            KeyList(<<
                <<"t", "s", "h", "i", "r", "t">>,
                <<"t", "-", "s", "h", "i", "r", "t">>,
                <<"s", "h", "i", "r", "t">>, <<"v", "e", "s", "t">>,
                <<"s", "i", "n", "g", "l", "e", "t">>, <<"t", "o", "p">>,
                <<"b", "l", "o", "u", "s", "e">>>>)),
      Entry(<<"6", "2", "0", "3">>,
            "Men's or boys' suits, ensembles", Percent(12),
            KeyList(<<
                <<"s", "u", "i", "t">>, <<"b", "l", "a", "z", "e", "r">>,
                <<"j", "a", "c", "k", "e", "t">>,
                <<"t", "r", "o", "u", "s", "e", "r">>,
                <<"p", "a", "n", "t">>,
                <<"f", "o", "r", "m", "a", "l", " ", "w", "e", "a", "r">>>>)),
      Entry(<<"6", "2", "0", "4">>,
            "Women's or girls' suits, ensembles", Percent(12),
            KeyList(<<
                <<"d", "r", "e", "s", "s">>, <<"s", "k", "i", "r", "t">>,
                <<"k", "u", "r", "t", "i">>, <<"s", "a", "r", "e", "e">>,
                <<"l", "a", "d", "i", "e", "s", " ", "w", "e", "a", "r">>,
                <<"w", "o", "m", "e", "n", " ", "w", "e", "a", "r">>>>)),
      Entry(<<"6", "1", "1", "5">>,
            "Pantyhose, tights, stockings, socks", Percent(12),
            KeyList(<<
                <<"s", "o", "c", "k", "s">>,
                <<"s", "t", "o", "c", "k", "i", "n", "g">>,
                <<"p", "a", "n", "t", "y", "h", "o", "s", "e">>,
                <<"h", "o", "s", "i", "e", "r", "y">>>>)),
      Entry(<<"6", "4", "0", "2">>,
            "Footwear with outer soles", Percent(18),
            KeyList(<<
                <<"s", "h", "o", "e", "s">>,
                <<"s", "a", "n", "d", "a", "l">>,
                <<"f", "o", "o", "t", "w", "e", "a", "r">>,
                <<"b", "o", "o", "t">>,
                <<"s", "l", "i", "p", "p", "e", "r">>,
                <<"c", "h", "a", "p", "p", "a", "l">>>>)),
      Entry(<<"8", "4", "7", "1">>,
            "Automatic data processing machines", Percent(18),
            KeyList(<<
                <<"c", "o", "m", "p", "u", "t", "e", "r">>,
                <<"l", "a", "p", "t", "o", "p">>,
                <<"d", "e", "s", "k", "t", "o", "p">>, <<"p", "c">>,
                <<"p", "r", "o", "c", "e", "s", "s", "o", "r">>,
                <<"c", "p", "u">>>>)),
      Entry(<<"8", "5", "1", "7">>,
            "Telephone sets, mobile phones", Percent(18),
            KeyList(<<
                <<"m", "o", "b", "i", "l", "e">>,
                <<"p", "h", "o", "n", "e">>,
                <<"s", "m", "a", "r", "t", "p", "h", "o", "n", "e">>,
                <<"t", "e", "l", "e", "p", "h", "o", "n", "e">>,
                <<"c", "e", "l", "l", " ", "p", "h", "o", "n", "e">>>>)),
      Entry(<<"8", "5", "2", "8">>,
            "Monitors and projectors", Percent(18),
            KeyList(<<
                <<"m", "o", "n", "i", "t", "o", "r">>,
                <<"s", "c", "r", "e", "e", "n">>,
                <<"d", "i", "s", "p", "l", "a", "y">>,
                <<"p", "r", "o", "j", "e", "c", "t", "o", "r">>,
                <<"t", "v">>,
                <<"t", "e", "l", "e", "v", "i", "s", "i", "o", "n">>>>)),
      Entry(<<"8", "5", "0", "4">>,
            "Electrical transformers", Percent(18),
            KeyList(<<
                <<"t", "r", "a", "n", "s", "f", "o", "r", "m", "e", "r">>,
                <<"e", "l", "e", "c", "t", "r", "i", "c", "a", "l">>,
                <<"p", "o", "w", "e", "r", " ", "s", "u", "p", "p", "l", "y">>,
                <<"a", "d", "a", "p", "t", "e", "r">>>>)),
      Entry(<<"8", "5", "1", "9">>,
            "Sound recording apparatus", Percent(18),
            KeyList(<<
                <<"s", "p", "e", "a", "k", "e", "r">>,
                <<"a", "u", "d", "i", "o">>, <<"s", "o", "u", "n", "d">>,
                <<"m", "u", "s", "i", "c", " ", "s", "y", "s", "t", "e", "m">>,
                <<"h", "e", "a", "d", "p", "h", "o", "n", "e">>>>)),
      Entry(<<"8", "4", "7", "3">>,
            "Parts of machines of heading 8471", Percent(18),
            KeyList(<<
                <<"k", "e", "y", "b", "o", "a", "r", "d">>,
                <<"m", "o", "u", "s", "e">>,
                <<"c", "o", "m", "p", "u", "t", "e", "r", " ", "p", "a", "r", "t", "s">>,
                <<"a", "c", "c", "e", "s", "s", "o", "r", "i", "e", "s">>>>)),
      Entry(<<"8", "7", "0", "3">>,
            "Motor cars and other motor vehicles", Percent(28),
            KeyList(<<
                <<"c", "a", "r">>,
                <<"a", "u", "t", "o", "m", "o", "b", "i", "l", "e">>,
                <<"v", "e", "h", "i", "c", "l", "e">>,
                <<"s", "e", "d", "a", "n">>,
                <<"h", "a", "t", "c", "h", "b", "a", "c", "k">>>>)),
      Entry(<<"8", "7", "1", "1">>,
            "Motorcycles", Percent(28),
            KeyList(<<
                <<"m", "o", "t", "o", "r", "c", "y", "c", "l", "e">>,
                <<"b", "i", "k", "e">>,
                <<"s", "c", "o", "o", "t", "e", "r">>,
                <<"t", "w", "o", " ", "w", "h", "e", "e", "l", "e", "r">>>>)),
      Entry(<<"8", "7", "0", "8">>,
            "Parts and accessories of motor vehicles", Percent(28),
            KeyList(<<
                <<"a", "u", "t", "o", " ", "p", "a", "r", "t", "s">>,
                <<"s", "p", "a", "r", "e", " ", "p", "a", "r", "t", "s">>,
                <<"c", "a", "r", " ", "p", "a", "r", "t", "s">>,
                <<"v", "e", "h", "i", "c", "l", "e", " ", "p", "a", "r", "t", "s">>>>)),
      Entry(<<"2", "9", "1", "5">>,
            "Saturated acyclic monocarboxylic acids", Percent(18),
            KeyList(<<
                <<"c", "h", "e", "m", "i", "c", "a", "l">>,
                <<"a", "c", "i", "d">>,
                <<"i", "n", "d", "u", "s", "t", "r", "i", "a", "l", " ", "c", "h", "e", "m", "i", "c", "a", "l">>>>)),
      Entry(<<"3", "0", "0", "4">>,
            "Medicaments", Percent(12),
            KeyList(<<
                <<"m", "e", "d", "i", "c", "i", "n", "e">>,
                <<"d", "r", "u", "g">>,
                <<"p", "h", "a", "r", "m", "a", "c", "e", "u", "t", "i", "c", "a", "l">>,
                <<"t", "a", "b", "l", "e", "t">>,
                <<"c", "a", "p", "s", "u", "l", "e">>,
                <<"s", "y", "r", "u", "p">>>>)),
      Entry(<<"3", "3", "0", "7">>,
            "Perfumes and cosmetics", Percent(18),
            KeyList(<<
                <<"p", "e", "r", "f", "u", "m", "e">>,
                <<"c", "o", "s", "m", "e", "t", "i", "c">>,
                <<"m", "a", "k", "e", "u", "p">>,
                <<"b", "e", "a", "u", "t", "y">>,
                <<"c", "r", "e", "a", "m">>, <<"l", "o", "t", "i", "o", "n">>>>)),
      Entry(<<"3", "4", "0", "1">>,
            "Soap; organic surface-active products", Percent(18),
            KeyList(<<
                <<"s", "o", "a", "p">>,
                <<"d", "e", "t", "e", "r", "g", "e", "n", "t">>,
                <<"s", "h", "a", "m", "p", "o", "o">>,
                <<"c", "l", "e", "a", "n", "i", "n", "g">>>>)),
      Entry(<<"9", "4", "0", "1">>,
            "Seats", Percent(18),
            KeyList(<<
                <<"c", "h", "a", "i", "r">>, <<"s", "e", "a", "t">>,
                <<"s", "o", "f", "a">>, <<"b", "e", "n", "c", "h">>,
                <<"s", "t", "o", "o", "l">>>>)),
      Entry(<<"9", "4", "0", "3">>,
            "Other furniture", Percent(18),
            KeyList(<<
                <<"f", "u", "r", "n", "i", "t", "u", "r", "e">>,
                <<"t", "a", "b", "l", "e">>, <<"d", "e", "s", "k">>,
                <<"c", "a", "b", "i", "n", "e", "t">>,
                <<"w", "a", "r", "d", "r", "o", "b", "e">>, <<"b", "e", "d">>>>)),
      Entry(<<"7", "0", "1", "3">>,
            "Glassware", Percent(18),
            KeyList(<<
                <<"g", "l", "a", "s", "s">>,
                <<"g", "l", "a", "s", "s", "w", "a", "r", "e">>,
                <<"t", "u", "m", "b", "l", "e", "r">>,
                <<"b", "o", "t", "t", "l", "e">>, <<"j", "a", "r">>>>)),
      Entry(<<"6", "9", "1", "2">>,
            "Ceramic tableware", Percent(18),
            KeyList(<<
                <<"c", "e", "r", "a", "m", "i", "c">>,
                <<"p", "l", "a", "t", "e">>, <<"c", "u", "p">>,
                <<"b", "o", "w", "l">>, <<"p", "o", "t", "t", "e", "r", "y">>>>)),
      Entry(<<"4", "9", "0", "1">>,
            "Printed books, brochures", Percent(5),
            KeyList(<<
                <<"b", "o", "o", "k">>, <<"n", "o", "v", "e", "l">>,
                <<"t", "e", "x", "t", "b", "o", "o", "k">>,
                <<"m", "a", "g", "a", "z", "i", "n", "e">>,
                <<"p", "u", "b", "l", "i", "c", "a", "t", "i", "o", "n">>>>)),
      Entry(<<"4", "8", "0", "2">>,
            "Uncoated paper", Percent(12),
            KeyList(<<
                <<"p", "a", "p", "e", "r">>, <<"s", "h", "e", "e", "t">>,
                <<"n", "o", "t", "e", "b", "o", "o", "k">>,
                <<"c", "o", "p", "y">>>>)),
      Entry(<<"9", "6", "0", "8">>,
            "Ball point pens", Percent(18),
            KeyList(<<
                <<"p", "e", "n">>, <<"p", "e", "n", "c", "i", "l">>,
                <<"m", "a", "r", "k", "e", "r">>,
                <<"s", "t", "a", "t", "i", "o", "n", "e", "r", "y">>>>)),
      Entry(<<"9", "9", "8", "3", "4", "1">>,
            "Information technology software services", Percent(18),
            KeyList(<<
                <<"s", "o", "f", "t", "w", "a", "r", "e">>,
                <<"d", "e", "v", "e", "l", "o", "p", "m", "e", "n", "t">>,
                <<"p", "r", "o", "g", "r", "a", "m", "m", "i", "n", "g">>,
                <<"a", "p", "p">>, <<"w", "e", "b", "s", "i", "t", "e">>>>)),
      Entry(<<"9", "9", "8", "3", "4", "2">>,
            "Information technology consulting services", Percent(18),
            KeyList(<<
                <<"c", "o", "n", "s", "u", "l", "t", "i", "n", "g">>,
                <<"i", "t", " ", "s", "e", "r", "v", "i", "c", "e">>,
                <<"t", "e", "c", "h", "n", "i", "c", "a", "l">>,
                <<"s", "u", "p", "p", "o", "r", "t">>>>)),
      Entry(<<"9", "9", "8", "3", "4", "3">>,
            "Information technology support services", Percent(18),
            KeyList(<<
                <<"s", "u", "p", "p", "o", "r", "t">>,
                <<"m", "a", "i", "n", "t", "e", "n", "a", "n", "c", "e">>,
                <<"r", "e", "p", "a", "i", "r">>,
                <<"t", "r", "o", "u", "b", "l", "e", "s", "h", "o", "o", "t", "i", "n", "g">>>>)),
      Entry(<<"9", "9", "7", "2", "1", "3">>,
            "Legal services", Percent(18),
            KeyList(<<
                <<"l", "e", "g", "a", "l">>,
                <<"l", "a", "w", "y", "e", "r">>,
                <<"a", "t", "t", "o", "r", "n", "e", "y">>,
                <<"c", "o", "u", "r", "t">>, <<"l", "a", "w">>>>)),
      Entry(<<"9", "9", "7", "2", "1", "2">>,
            "Accounting and auditing services", Percent(18),
            KeyList(<<
                <<"a", "c", "c", "o", "u", "n", "t", "i", "n", "g">>,
                <<"a", "u", "d", "i", "t">>, <<"t", "a", "x">>,
                <<"f", "i", "n", "a", "n", "c", "i", "a", "l">>,
                <<"b", "o", "o", "k", "k", "e", "e", "p", "i", "n", "g">>>>)),
      Entry(<<"9", "9", "6", "5", "1", "1">>,
            "Transportation of goods by road", Percent(5),
            KeyList(<<
                <<"t", "r", "a", "n", "s", "p", "o", "r", "t">>,
                <<"d", "e", "l", "i", "v", "e", "r", "y">>,
                <<"s", "h", "i", "p", "p", "i", "n", "g">>,
                <<"l", "o", "g", "i", "s", "t", "i", "c", "s">>,
                <<"c", "o", "u", "r", "i", "e", "r">>>>)),
      Entry(<<"9", "9", "7", "3", "1", "1">>,
            "Architectural services", Percent(18),
            KeyList(<<
                <<"a", "r", "c", "h", "i", "t", "e", "c", "t", "u", "r", "e">>,
                <<"d", "e", "s", "i", "g", "n">>,
                <<"p", "l", "a", "n", "n", "i", "n", "g">>,
                <<"c", "o", "n", "s", "t", "r", "u", "c", "t", "i", "o", "n", " ", "d", "e", "s", "i", "g", "n">>>>)),
      Entry(<<"9", "9", "8", "3", "1", "3">>,
            "Market research and public opinion polling", Percent(18),
            KeyList(<<
                <<"r", "e", "s", "e", "a", "r", "c", "h">>,
                <<"s", "u", "r", "v", "e", "y">>,
                <<"m", "a", "r", "k", "e", "t", "i", "n", "g">>,
                <<"a", "n", "a", "l", "y", "s", "i", "s">>>>)),
      Entry(<<"7", "1", "1", "3">>,
            "Articles of jewelry", Percent(3),
            KeyList(<<
                <<"j", "e", "w", "e", "l", "r", "y">>,
                <<"g", "o", "l", "d">>, <<"s", "i", "l", "v", "e", "r">>,
                <<"o", "r", "n", "a", "m", "e", "n", "t">>,
                <<"j", "e", "w", "e", "l", "l", "e", "r", "y">>>>)),
      Entry(<<"7", "1", "0", "8">>,
            "Gold", Percent(3),
            KeyList(<<
                <<"g", "o", "l", "d">>,
                <<"p", "r", "e", "c", "i", "o", "u", "s", " ", "m", "e", "t", "a", "l">>>>)),
      Entry(<<"9", "5", "0", "3">>,
            "Toys", Percent(18),
            KeyList(<<
                <<"t", "o", "y">>, <<"g", "a", "m", "e">>,
                <<"d", "o", "l", "l">>, <<"p", "u", "z", "z", "l", "e">>,
                <<"p", "l", "a", "y", "t", "h", "i", "n", "g">>>>)),
      Entry(<<"1", "2", "0", "7">>,
            "Oil seeds", Percent(5),
            KeyList(<<
                <<"s", "e", "e", "d", "s">>,
                <<"o", "i", "l", " ", "s", "e", "e", "d", "s">>,
                <<"m", "u", "s", "t", "a", "r", "d">>,
                <<"s", "e", "s", "a", "m", "e">>>>)),
      Entry(<<"9", "9", "9", "9">>,
            "General/Other items", Percent(18),
            KeyList(<<
                <<"o", "t", "h", "e", "r">>,
                <<"g", "e", "n", "e", "r", "a", "l">>,
                <<"m", "i", "s", "c", "e", "l", "l", "a", "n", "e", "o", "u", "s">>>>))
    >>

\* code in HSN_DATABASE
db_has(db, code) == \E k \in 1..Len(db) : db[k].code = code

\* HSN_DATABASE[code]
db_get(db, code) == db[CHOOSE k \in 1..Len(db) : db[k].code = code].info

\* HSN_DATABASE[code] = info: in place for a code present, else at the end.
db_set(db, code, info) ==
    IF db_has(db, code)
    THEN [k \in 1..Len(db) |->
             IF db[k].code = code THEN [code |-> code, info |-> info]
             ELSE db[k]]
    ELSE Append(db, [code |-> code, info |-> info])

PyNone == [st |-> "ok", none |-> TRUE]

Digits == {"0", "1", "2", "3", "4", "5", "6", "7", "8", "9"}

IsDigit(c) == c \in Digits

\* re.sub(r'[^0-9]', '', s)
digits_only(chars) == SelectSeq(chars, IsDigit)

lower_char(c) ==
    IF \E i \in 1..Len(UpperCase) : UpperCase[i] = c
    THEN LowerCase[CHOOSE i \in 1..Len(UpperCase) : UpperCase[i] = c]
    ELSE c

\* str.lower()
lower(chars) == [i \in 1..Len(chars) |-> lower_char(chars[i])]

\* needle in hay
contains(hay, needle) ==
    \E i \in 0..(Len(hay) - Len(needle)) :
        SubSeq(hay, i + 1, i + Len(needle)) = needle

\* s.startswith(p)
startswith(s, p) == Len(p) <= Len(s) /\ SubSeq(s, 1, Len(p)) = p

\* The check on the string as given, no character removed.
validate_hsn_format_unstripped(hsn_code) ==
    /\ hsn_code # <<>>
    /\ Len(hsn_code) \in {4, 6, 8}
    /\ \A i \in 1..Len(hsn_code) : IsDigit(hsn_code[i])

validate_hsn_format(hsn_code) ==
    IF hsn_code = <<>> THEN FALSE
    ELSE LET clean_code == digits_only(hsn_code)
         IN  /\ Len(clean_code) \in {4, 6, 8}
             /\ clean_code # <<>>       \* str.isdigit() of ASCII digits
             /\ \A i \in 1..Len(clean_code) : IsDigit(clean_code[i])

\* info = HSN_DATABASE[parent_code]; the suffix is written to the stored dict.
sub_category_info_in_place(db, parent_code) ==
    LET info == db_get(db, parent_code)
        written == [info EXCEPT !.description = @ \o " (sub-category)"]
    IN  [result |-> [st |-> "ok", none |-> FALSE, info |-> written],
         db |-> db_set(db, parent_code, written)]

(***************************************************************************)
(* info = HSN_DATABASE[parent_code].copy(); info["description"] += "...":  *)
(* the copy is a new dict and the assignment binds its key to a new str,   *)
(* so no object of the catalog is written.                                 *)
(***************************************************************************)
sub_category_info(db, parent_code) ==
    LET info == db_get(db, parent_code)
        written == [info EXCEPT !.description = @ \o " (sub-category)"]
    IN  [result |-> [st |-> "ok", none |-> FALSE, info |-> written],
         db |-> db]

\* get_hsn_info: what it returns and the catalog it leaves.
get_hsn_info(db, hsn_code) ==
    LET clean_code == digits_only(hsn_code)
        parent_code == SubSeq(clean_code, 1, 4)
    IN  IF ~validate_hsn_format(clean_code)
        THEN [result |-> PyNone, db |-> db]
        ELSE IF db_has(db, clean_code)
        THEN [result |-> [st |-> "ok", none |-> FALSE,
                          info |-> db_get(db, clean_code)],
              db |-> db]
        ELSE IF Len(clean_code) > 4 /\ db_has(db, parent_code)
        THEN sub_category_info(db, parent_code)
        ELSE [result |-> PyNone, db |-> db]

\* add_custom_hsn: None or the ValueError, and the catalog it leaves.
add_custom_hsn(db, hsn_code, description, typical_gst) ==
    LET clean_code == digits_only(hsn_code)
    IN  IF ~validate_hsn_format(clean_code)
        THEN [result |-> Raise("ValueError", "Invalid HSN code format"),
              db |-> db]
        ELSE IF ~(0 <= typical_gst /\ typical_gst <= 100 * RateDen)
        THEN [result |-> Raise("ValueError",
                               "GST rate must be between 0 and 100"),
              db |-> db]
        ELSE [result |-> PyNone,
              db |-> db_set(db, clean_code,
                            Info(description, typical_gst, KeyAbsent))]

\* info.get('keywords', [])
info_keywords(info) ==
    IF info.keywords.absent THEN <<>> ELSE info.keywords.list

\* f' {keyword} ' in f' {description_lower} '
in_padded(keyword, d) ==
    contains(<<" ">> \o d \o <<" ">>, <<" ">> \o keyword \o <<" ">>)

Min(a, b) == IF a < b THEN a ELSE b

\* Equal keys come out in reverse of their order in the list.
stable_sort_desc_ties_reversed(seq, keys) ==
    LET n == Len(seq)
        rank(i) == 1 + Cardinality({ j \in 1..n :
                                       \/ keys[j] > keys[i]
                                       \/ keys[j] = keys[i] /\ j > i })
    IN  [p \in 1..n |-> seq[CHOOSE i \in 1..n : rank(i) = p]]

(***************************************************************************)
(* list.sort(key=..., reverse=True) for the list seq whose i-th element    *)
(* has the key keys[i]: descending by key, elements of equal key in their  *)
(* original order (the sort is stable, also when reversed).                *)
(***************************************************************************)
stable_sort_desc(seq, keys) ==
    LET n == Len(seq)
        rank(i) == 1 + Cardinality({ j \in 1..n :
                                       \/ keys[j] > keys[i]
                                       \/ keys[j] = keys[i] /\ j < i })
    IN  [p \in 1..n |-> seq[CHOOSE i \in 1..n : rank(i) = p]]

\* The weights of get_multiple_suggestions.
auto_keyword_score_as_multiple(keyword, d) ==
    IF contains(d, keyword)
    THEN (IF keyword = d THEN 10 ELSE 3)
         + (IF in_padded(keyword, d) THEN 2 ELSE 0)
         + (IF startswith(d, keyword) THEN 1 ELSE 0)
    ELSE 0

\* What one keyword adds to the score in auto_suggest_hsn.
auto_keyword_score(keyword, d) ==
    IF contains(d, keyword)
    THEN (IF keyword = d THEN 10
          ELSE IF contains(d, keyword) THEN 5
          ELSE 0)
         + (IF in_padded(keyword, d) THEN 3 ELSE 0)
         + (IF startswith(d, keyword) THEN 2 ELSE 0)
    ELSE 0

RECURSIVE auto_score_from(_, _, _)
auto_score_from(score, keywords, d) ==
    IF keywords = <<>> THEN score
    ELSE auto_score_from(score + auto_keyword_score(Head(keywords), d),
                         Tail(keywords), d)

RECURSIVE auto_suggestions_from(_, _, _)
auto_suggestions_from(suggestions, db, d) ==
    IF db = <<>> THEN suggestions
    ELSE LET info == Head(db).info
             keywords == info_keywords(info)
             score == auto_score_from(0, keywords, d)
         IN  auto_suggestions_from(
                 IF score > 0
                 THEN Append(suggestions,
                             [hsn_code |-> Head(db).code,
                              description |-> info.description,
                              typical_gst |-> info.typical_gst,
                              score |-> score,
                              keywords |-> keywords])
                 ELSE suggestions,
                 Tail(db), d)

auto_suggest_hsn(db, item_description) ==
    IF item_description = <<>> THEN PyNone
    ELSE LET description_lower == strip(lower(item_description))
             found == auto_suggestions_from(<<>>, db, description_lower)
             suggestions ==
                 stable_sort_desc(found,
                                  [i \in 1..Len(found) |-> found[i].score])
         IN  IF suggestions # <<>>
             THEN LET best_match == suggestions[1]
                  IN  [st |-> "ok", none |-> FALSE,
                       hsn_code |-> best_match.hsn_code,
                       description |-> best_match.description,
                       typical_gst |-> best_match.typical_gst,
                       confidence |-> Min(best_match.score * 10, 100)]
             ELSE PyNone

\* What one keyword adds to the score in get_multiple_suggestions.
multiple_keyword_score(keyword, d) ==
    IF contains(d, keyword)
    THEN (IF keyword = d THEN 10 ELSE 3)
         + (IF in_padded(keyword, d) THEN 2 ELSE 0)
         + (IF startswith(d, keyword) THEN 1 ELSE 0)
    ELSE 0

RECURSIVE multiple_score_from(_, _, _)
multiple_score_from(score, keywords, d) ==
    IF keywords = <<>> THEN score
    ELSE multiple_score_from(score + multiple_keyword_score(Head(keywords), d),
                             Tail(keywords), d)

\* [kw for kw in keywords if kw in description_lower]
match_keywords(keywords, d) ==
    LET hit(kw) == contains(d, kw) IN SelectSeq(keywords, hit)

RECURSIVE multiple_suggestions_from(_, _, _)
multiple_suggestions_from(suggestions, db, d) ==
    IF db = <<>> THEN suggestions
    ELSE LET info == Head(db).info
             keywords == info_keywords(info)
             score == multiple_score_from(0, keywords, d)
         IN  multiple_suggestions_from(
                 IF score > 0
                 THEN Append(suggestions,
                             [hsn_code |-> Head(db).code,
                              description |-> info.description,
                              typical_gst |-> info.typical_gst,
                              confidence |-> Min(score * 8, 100),
                              match_keywords |-> match_keywords(keywords, d)])
                 ELSE suggestions,
                 Tail(db), d)

\* seq[:limit], limit any int.
slice_to(seq, limit) ==
    LET n == Len(seq)
        stop == IF limit >= 0 THEN Min(limit, n)
                ELSE IF n + limit > 0 THEN n + limit ELSE 0
    IN  SubSeq(seq, 1, stop)

get_multiple_suggestions(db, item_description, limit) ==
    IF item_description = <<>> THEN [st |-> "ok", list |-> <<>>]
    ELSE LET description_lower == strip(lower(item_description))
             found == multiple_suggestions_from(<<>>, db, description_lower)
             suggestions ==
                 stable_sort_desc(found,
                                  [i \in 1..Len(found) |-> found[i].confidence])
         IN  [st |-> "ok", list |-> slice_to(suggestions, limit)]

(***************************************************************************)
(* SpecHsn: the catalog as the class body leaves it, then any sequence of  *)
(* HSNValidator calls, one at a time.  hsn_read is the call made and what  *)
(* it returned, until the caller takes it.                                 *)
(***************************************************************************)
\* item_description arguments
HsnDescriptions ==
    { <<"l", "a", "p", "t", "o", "p">>,
      <<" ", "L", "a", "p", "t", "o", "p", " ">>,
      <<"L", "A", "P", "T", "O", "P", "S">>,
      <<"g", "o", "l", "d">>,
      <<"g", "o", "l", "d", " ", "r", "i", "n", "g">>,
      <<"s", "u", "p", "p", "o", "r", "t">>,
      <<"g", "r", "e", "e", "n", " ", "t", "e", "a">>,
      <<"s", "t", "e", "a", "m", " ", "e", "n", "g", "i", "n", "e">>,
      <<"c", "a", "r", "p", "e", "t">>,
      <<"c", "e", "l", "l", " ", "p", "h", "o", "n", "e", " ", "c", "a", "s", "e">>,
      <<"c", "o", "m", "p", "u", "t", "e", "r", " ", "p", "a", "r", "t", "s">>,
      <<"t", "-", "s", "h", "i", "r", "t">>,
      <<"t", "a", "b", "l", "e", "t">>,
      <<"\t", "R", "i", "c", "e">>,
      <<"z", "z", "z">>,
      <<"p", "e", "n", "c", "i", "l", " ", "b", "l", "a", "c", "k", " ", "t", "e", "a">>,
      <<>>,
      <<" ">>,
      <<"i", "t", " ", "s", "e", "r", "v", "i", "c", "e", " ", "s", "u", "p", "p", "o", "r", "t">> }

\* hsn_code arguments
HsnCodes ==
    { <<"8", "4", "7", "1">>,
      <<"8", "4", "7", "1", "3", "0">>,
      <<"8", "4", "7", "1", "3", "0", "0", "0">>,
      <<"8", "4", "-", "7", "1">>,
      <<"9", "9", "8", "3", " ", "4", "1">>,
      <<"9", "9", "8", "3", "4", "1", "0", "0">>,
      <<"1", "2", "3", "4", "5">>,
      <<"1", "2", "3", "4">>,
      <<>>,
      <<"H", "S", "N">>,
      <<"1", "2", "3", "4", "5", "6", "7", "8", "9">>,
      <<"8", "4", "7", "1", "3", "0", "1">> }

HsnLimits == -1..3

\* add_custom_hsn arguments: a catalog code, a sub-code, a code of 5 digits.
HsnCustomCodes ==
    { <<"8", "4", "7", "1">>, <<"8", "4", "-", "7", "1", "3", "0">>,
      <<"1", "2", "3", "4", "5">> }

HsnCustomRates == { Percent(12), Percent(100) + 1 }

InitHsn ==
    /\ HSN_DATABASE = HSN_DATABASE_literal
    /\ hsn_read = NotCalled
    /\ words_read = NotCalled
    /\ gstin_read = NotCalled
    /\ rate_read = NotCalled
    /\ gen_read = NotCalled
    /\ GstUnused
    /\ ItemUnused
    /\ InvoiceUnused
    /\ ConfigUnused

CallValidateHsnFormat ==
    /\ hsn_read = NotCalled
    /\ \E c \in HsnCodes :
           hsn_read' = [st |-> "ok", op |-> "validate_hsn_format",
                        hsn_code |-> c, result |-> validate_hsn_format(c)]
    /\ UNCHANGED <<HSN_DATABASE, words_read, gstin_read, rate_read, gen_read>>
    /\ UNCHANGED <<model_vars, config_vars>>

CallGetHsnInfo ==
    /\ hsn_read = NotCalled
    /\ \E c \in HsnCodes :
           LET r == get_hsn_info(HSN_DATABASE, c)
           IN  /\ hsn_read' = [st |-> "ok", op |-> "get_hsn_info",
                               hsn_code |-> c, result |-> r.result]
               /\ HSN_DATABASE' = r.db
    /\ UNCHANGED <<words_read, gstin_read, rate_read, gen_read>>
    /\ UNCHANGED <<model_vars, config_vars>>

CallAddCustomHsn ==
    /\ hsn_read = NotCalled
    /\ \E c \in HsnCustomCodes, g \in HsnCustomRates :
           LET r == add_custom_hsn(HSN_DATABASE, c, "Custom", g)
           IN  /\ hsn_read' = [st |-> "ok", op |-> "add_custom_hsn",
                               hsn_code |-> c, typical_gst |-> g,
                               result |-> r.result]
               /\ HSN_DATABASE' = r.db
    /\ UNCHANGED <<words_read, gstin_read, rate_read, gen_read>>
    /\ UNCHANGED <<model_vars, config_vars>>

CallAutoSuggestHsn ==
    /\ hsn_read = NotCalled
    /\ \E d \in HsnDescriptions :
           hsn_read' = [st |-> "ok", op |-> "auto_suggest_hsn",
                        item_description |-> d,
                        result |-> auto_suggest_hsn(HSN_DATABASE, d)]
    /\ UNCHANGED <<HSN_DATABASE, words_read, gstin_read, rate_read, gen_read>>
    /\ UNCHANGED <<model_vars, config_vars>>

CallGetMultipleSuggestions ==
    /\ hsn_read = NotCalled
    /\ \E d \in HsnDescriptions, limit \in HsnLimits :
           hsn_read' =
               [st |-> "ok", op |-> "get_multiple_suggestions",
                item_description |-> d, limit |-> limit,
                result |-> get_multiple_suggestions(HSN_DATABASE, d, limit)]
    /\ UNCHANGED <<HSN_DATABASE, words_read, gstin_read, rate_read, gen_read>>
    /\ UNCHANGED <<model_vars, config_vars>>

\* The caller takes the result; the next call can be made.
HsnReturn ==
    /\ hsn_read # NotCalled
    /\ hsn_read' = NotCalled
    /\ UNCHANGED <<HSN_DATABASE, words_read, gstin_read, rate_read, gen_read>>
    /\ UNCHANGED <<model_vars, config_vars>>

NextHsn ==
    \/ HsnReturn
    \/ CallValidateHsnFormat
    \/ CallGetHsnInfo
    \/ CallAddCustomHsn
    \/ CallAutoSuggestHsn
    \/ CallGetMultipleSuggestions

SpecHsn == InitHsn /\ [][NextHsn]_vars

(***************************************************************************)
(* GSTCalculator.validate_gstin (services/gst_calculator.py).  The GSTIN   *)
(* is an Optional[str]; the result is the tuple (is_valid, error), or the  *)
(* exception that leaves the method.                                       *)
(***************************************************************************)

\* Characters c with c.isdigit() true that int() does not read: the
\* superscript digits (str.isdigit is wider than str.isdecimal).
SuperscriptDigits == {"²"}

Letters ==
    {UpperCase[i] : i \in 1..Len(UpperCase)} \cup
    {LowerCase[i] : i \in 1..Len(LowerCase)}

\* gstin.replace(" ", "")
IsNotBlank(c) == c # " "

remove_spaces(chars) == SelectSeq(chars, IsNotBlank)

\* str.isdigit()
isdigit(chars) ==
    /\ chars # <<>>
    /\ \A i \in 1..Len(chars) : chars[i] \in Digits \cup SuperscriptDigits

\* str.isalpha()
isalpha(chars) ==
    /\ chars # <<>>
    /\ \A i \in 1..Len(chars) : chars[i] \in Letters

DecimalDigits == <<"0", "1", "2", "3", "4", "5", "6", "7", "8", "9">>

digit_value(c) == (CHOOSE n \in 1..Len(DecimalDigits) : DecimalDigits[n] = c) - 1

RECURSIVE int_value(_)
int_value(chars) ==
    IF chars = <<>> THEN 0
    ELSE 10 * int_value(SubSeq(chars, 1, Len(chars) - 1))
         + digit_value(chars[Len(chars)])

\* int(s) of a string without blanks or sign
int_of(chars) ==
    IF chars # <<>> /\ \A i \in 1..Len(chars) : chars[i] \in Digits
    THEN [st |-> "ok", value |-> int_value(chars)]
    ELSE Raise("ValueError", "invalid literal for int() with base 10")

\* return is_valid, error
GstinResult(is_valid, error) ==
    [st |-> "ok", is_valid |-> is_valid, error |-> error]

validate_gstin(gstin) ==
    IF ~truthy(gstin)
    THEN GstinResult(FALSE, Some("GSTIN cannot be empty"))
    ELSE
    LET g == upper(remove_spaces(gstin.s))
        state_code == SubSeq(g, 1, 2)
        pan_part == SubSeq(g, 3, 12)
        entity_code == SubSeq(g, 13, 13)
        check_digit == SubSeq(g, 14, 14)
    IN  IF Len(g) # 15
        THEN GstinResult(FALSE, Some("GSTIN must be 15 characters long"))
        ELSE IF ~isdigit(state_code)
        THEN GstinResult(FALSE, Some("Invalid state code in GSTIN"))
        ELSE IF int_of(state_code).st = "raise"
        THEN int_of(state_code)
        ELSE IF ~(1 <= int_of(state_code).value
                  /\ int_of(state_code).value <= 37)
        THEN GstinResult(FALSE, Some("Invalid state code in GSTIN"))
        ELSE IF ~(/\ Len(pan_part) = 10
                  /\ isalpha(SubSeq(pan_part, 1, 5))
                  /\ isdigit(SubSeq(pan_part, 6, 9))
                  /\ isalpha(SubSeq(pan_part, 10, 10)))
        THEN GstinResult(FALSE, Some("Invalid PAN format in GSTIN"))
        ELSE IF ~(isdigit(entity_code) \/ isalpha(entity_code))
        THEN GstinResult(FALSE, Some("Invalid entity code in GSTIN"))
        ELSE IF ~(isdigit(check_digit) \/ isalpha(check_digit))
        THEN GstinResult(FALSE, Some("Invalid check digit in GSTIN"))
        ELSE IF g[15] # "Z"
        THEN GstinResult(FALSE, Some("Last character of GSTIN must be 'Z'"))
        ELSE GstinResult(TRUE, None)

(***************************************************************************)
(* SpecGstin: one call of validate_gstin.  The arguments are None, "", an  *)
(* ID the method accepts, that ID with one or two characters replaced,     *)
(* with a blank inserted, and with a character dropped or added.           *)
(***************************************************************************)
T_GSTIN ==
    <<"2", "7", "A", "A", "B", "C", "S", "1", "2", "3", "4", "C", "1", "Z",
      "Z">>

replace_at(chars, i, c) ==
    [k \in 1..Len(chars) |-> IF k = i THEN c ELSE chars[k]]

insert_at(chars, i, c) ==
    SubSeq(chars, 1, i - 1) \o <<c>> \o SubSeq(chars, i, Len(chars))

GstinOneChars == {"0", "3", "4", "9", "A", "S", "Z", "a", "z", "-", " ", "²"}

GstinTwoChars == {"8", "Q", "-"}

GstinStrings ==
    {<<>>, <<" ">>, T_GSTIN}
    \cup {replace_at(T_GSTIN, i, c) : i \in 1..Len(T_GSTIN), c \in GstinOneChars}
    \cup {replace_at(replace_at(T_GSTIN, i, c), j, d) :
             i \in 1..Len(T_GSTIN), j \in 1..Len(T_GSTIN),
             c \in GstinTwoChars, d \in GstinTwoChars}
    \cup {insert_at(T_GSTIN, i, c) :
             i \in 1..(Len(T_GSTIN) + 1), c \in {" ", "1", "Z"}}
    \cup {insert_at(replace_at(T_GSTIN, i, " "), j, c) :
             i \in 1..Len(T_GSTIN), j \in {1, 3, Len(T_GSTIN) + 1},
             c \in {"1", "z", "-"}}
    \cup {SubSeq(T_GSTIN, 1, n) : n \in 1..(Len(T_GSTIN) - 1)}

GstinArgs == {None} \cup {Some(s) : s \in GstinStrings}

InitGstin ==
    /\ gstin_read = NotCalled
    /\ words_read = NotCalled
    /\ HSN_DATABASE = <<>>
    /\ hsn_read = NotCalled
    /\ rate_read = NotCalled
    /\ gen_read = NotCalled
    /\ GstUnused
    /\ ItemUnused
    /\ InvoiceUnused
    /\ ConfigUnused

CallValidateGstin ==
    /\ gstin_read = NotCalled
    /\ \E g \in GstinArgs :
           gstin_read' = [st |-> "called", gstin |-> g,
                          result |-> validate_gstin(g)]
    /\ UNCHANGED <<words_read, HSN_DATABASE, hsn_read, rate_read, gen_read>>
    /\ UNCHANGED <<model_vars, config_vars>>

NextGstin == CallValidateGstin

SpecGstin == InitGstin /\ [][NextGstin]_vars

(***************************************************************************)
(* GSTCalculator.validate_gst_rate and suggest_nearest_gst_rate.  A rate   *)
(* is a number of 1/RateDen percent.                                       *)
(***************************************************************************)
STANDARD_GST_RATES ==
    <<Percent(0), Percent(3), Percent(5), Percent(12), Percent(18),
      Percent(28)>>

\* rate in cls.STANDARD_GST_RATES
in_standard_rates(rate) ==
    \E i \in 1..Len(STANDARD_GST_RATES) : STANDARD_GST_RATES[i] = rate

validate_gst_rate(rate) ==
    in_standard_rates(rate) \/ (0 <= rate /\ rate <= Percent(100))

\* The last of the elements with the least key.
min_by_key_last(seq, keys) ==
    seq[CHOOSE i \in 1..Len(seq) :
            /\ \A j \in 1..Len(seq) : keys[i] <= keys[j]
            /\ \A j \in (i + 1)..Len(seq) : keys[i] < keys[j]]

\* min(seq, key=...): the first of the elements with the least key.
min_by_key(seq, keys) ==
    seq[CHOOSE i \in 1..Len(seq) :
            /\ \A j \in 1..Len(seq) : keys[i] <= keys[j]
            /\ \A j \in 1..(i - 1) : keys[i] < keys[j]]

suggest_nearest_gst_rate(rate) ==
    IF in_standard_rates(rate) THEN rate
    ELSE min_by_key(STANDARD_GST_RATES,
                    [i \in 1..Len(STANDARD_GST_RATES) |->
                        Abs(STANDARD_GST_RATES[i] - rate)])

(***************************************************************************)
(* SpecRate: one call of a rate check, on a rate between -5% and 105%.     *)
(***************************************************************************)
RateArgs == (-Percent(5))..Percent(105)

InitRate ==
    /\ rate_read = NotCalled
    /\ words_read = NotCalled
    /\ HSN_DATABASE = <<>>
    /\ hsn_read = NotCalled
    /\ gstin_read = NotCalled
    /\ gen_read = NotCalled
    /\ GstUnused
    /\ ItemUnused
    /\ InvoiceUnused
    /\ ConfigUnused

CallValidateGstRate ==
    /\ rate_read = NotCalled
    /\ \E r \in RateArgs :
           rate_read' = [st |-> "ok", op |-> "validate_gst_rate",
                         rate |-> r, result |-> validate_gst_rate(r)]
    /\ UNCHANGED <<words_read, HSN_DATABASE, hsn_read, gstin_read, gen_read>>
    /\ UNCHANGED <<model_vars, config_vars>>

CallSuggestNearestGstRate ==
    /\ rate_read = NotCalled
    /\ \E r \in RateArgs :
           rate_read' = [st |-> "ok", op |-> "suggest_nearest_gst_rate",
                         rate |-> r, result |-> suggest_nearest_gst_rate(r)]
    /\ UNCHANGED <<words_read, HSN_DATABASE, hsn_read, gstin_read, gen_read>>
    /\ UNCHANGED <<model_vars, config_vars>>

NextRate == CallValidateGstRate \/ CallSuggestNearestGstRate

SpecRate == InitRate /\ [][NextRate]_vars

(***************************************************************************)
(* InvoiceGenerator (services/invoice_generator.py).  A value of an input  *)
(* dict is Absent (no such key), NoneValue (the key maps to None) or       *)
(* Val(v).  create_invoice yields [result, stdout]: the Invoice or the     *)
(* exception, and the lines it printed.                                    *)
(***************************************************************************)
Absent == [k |-> "absent"]

NoneValue == [k |-> "none"]

Val(v) == [k |-> "val", v |-> v]

\* str(chars)
RECURSIVE join(_)
join(chars) == IF chars = <<>> THEN "" ELSE Head(chars) \o join(Tail(chars))

\* The first field of the list for which the test holds, "" when none does.
\* field not in data or not data[field]
absent_or_falsy(x) == x.k # "val" \/ Len(x.v) = 0

\* field not in item_data or item_data[field] is None
absent_or_none(x) == x.k # "val"

\* The first of the fields that is absent or None (or falsy, for a party),
\* "" when there is none.
RECURSIVE first_field(_, _, _)
first_field(fields, data, or_falsy) ==
    IF fields = <<>> THEN ""
    ELSE IF absent_or_none(data[Head(fields)])
            \/ (or_falsy /\ absent_or_falsy(data[Head(fields)]))
    THEN Head(fields)
    ELSE first_field(Tail(fields), data, or_falsy)

party_required_fields == <<"name", "address", "city", "state", "pincode">>

\* Company(**data) / Customer(**data): the fields the tax computation reads.
party_of(data) ==
    Party(data.state.v,
          IF data.gstin.k = "val" THEN Some(data.gstin.v) ELSE None)

create_party(data, Who, who) ==
    LET field == first_field(party_required_fields, data, TRUE)
    IN  IF field # ""
        THEN Raise("ValueError", Who \o " " \o field \o " is required")
        ELSE IF data.gstin.k = "val" /\ Len(data.gstin.v) > 0
        THEN LET r == validate_gstin(Some(data.gstin.v))
             IN  IF r.st = "raise" THEN r
                 ELSE IF ~r.is_valid
                 THEN Raise("ValueError",
                            "Invalid " \o who \o " GSTIN: " \o r.error.s)
                 ELSE [st |-> "ok", party |-> party_of(data)]
        ELSE [st |-> "ok", party |-> party_of(data)]

create_company(data) == create_party(data, "Company", "company")

create_customer(data) == create_party(data, "Customer", "customer")

item_required_fields == <<"description", "hsn_code", "quantity", "unit_price">>

\* item_data.setdefault(key, default); item_data[key]
setdefault(x, default) == IF x.k = "absent" THEN Val(default) ELSE x

\* print(f"Warning: GST rate {gst_rate}% is not standard. Consider using
\* {suggested_rate}%")
Warning(rate, suggested_rate) ==
    [line |-> "Warning: GST rate is not standard. Consider using",
     gst_rate |-> rate, suggested_rate |-> suggested_rate]

\* The body of the loop of _create_invoice_items, inside its try.
create_invoice_item(item_data) ==
    LET field == first_field(item_required_fields, item_data, FALSE)
        rate == setdefault(item_data.gst_rate, Percent(18))
        discount_percentage == setdefault(item_data.discount_percentage, 0)
        discount_amount == setdefault(item_data.discount_amount, 0)
    IN  IF field # ""
        THEN [result |-> Raise("ValueError",
                               "Item " \o field \o " is required"),
              stdout |-> <<>>]
        ELSE IF ~validate_hsn_format(item_data.hsn_code.v)
        THEN [result |-> Raise("ValueError",
                               "Invalid HSN code format: "
                                   \o join(item_data.hsn_code.v)),
              stdout |-> <<>>]
        ELSE IF rate.k = "none"
        THEN [result |-> Raise("TypeError",
                               "float() argument must be a string or a real number, not 'NoneType'"),
              stdout |-> <<>>]
        ELSE [result |->
                  InvoiceItemFull(item_data.description.v,
                                  item_data.hsn_code.v,
                                  item_data.quantity.v,
                                  item_data.unit_price.v,
                                  rate.v,
                                  discount_percentage.v,
                                  discount_amount.v),
              stdout |->
                  IF ~validate_gst_rate(rate.v)
                  THEN <<Warning(rate.v,
                                 suggest_nearest_gst_rate(rate.v))>>
                  ELSE <<>>]

\* An item that raises is left out and the loop goes on.
RECURSIVE create_items_from_skipping(_, _, _, _)
create_items_from_skipping(items_data, n, created, stdout) ==
    IF n > Len(items_data)
    THEN [result |-> [st |-> "ok", items |-> created], stdout |-> stdout]
    ELSE LET r == create_invoice_item(items_data[n])
         IN  create_items_from_skipping(
                 items_data, n + 1,
                 IF r.result.st = "raise" THEN created
                 ELSE Append(created, r.result),
                 stdout \o r.stdout)

\* for i, item_data in enumerate(items_data), from the n-th item on
\* (n = i + 1); except Exception as e: raise ValueError(...).
RECURSIVE create_items_from(_, _, _, _)
create_items_from(items_data, n, created, stdout) ==
    IF n > Len(items_data)
    THEN [result |-> [st |-> "ok", items |-> created], stdout |-> stdout]
    ELSE LET r == create_invoice_item(items_data[n])
         IN  IF r.result.st = "raise"
             THEN [result |->
                       Raise("ValueError",
                             "Error in item " \o ToString(n) \o ": "
                                 \o r.result.msg),
                   stdout |-> stdout \o r.stdout]
             ELSE create_items_from(items_data, n + 1,
                                    Append(created, r.result),
                                    stdout \o r.stdout)

create_invoice_items(items_data) ==
    IF items_data = <<>>
    THEN [result |-> Raise("ValueError", "At least one item is required"),
          stdout |-> <<>>]
    ELSE create_items_from(items_data, 1, <<>>, <<>>)

\* invoice_config is None, {'notes': ...} or {'invoice_date': 'not-a-date'}
apply_invoice_config(invoice, invoice_config) ==
    IF invoice_config = "invoice_date: not-a-date"
    THEN Raise("ValueError", "Invalid isoformat string: 'not-a-date'")
    ELSE [st |-> "ok", invoice |-> invoice]

create_invoice(company_data, customer_data, items_data, invoice_config) ==
    LET co == create_company(company_data)
        cu == create_customer(customer_data)
        its == create_invoice_items(items_data)
    IN  IF co.st = "raise" THEN [result |-> co, stdout |-> <<>>]
        ELSE IF cu.st = "raise" THEN [result |-> cu, stdout |-> <<>>]
        ELSE IF its.result.st = "raise" THEN its
        ELSE [result |->
                  IF invoice_config = "None"
                  THEN [st |-> "ok",
                        invoice |-> Invoice(co.party, cu.party,
                                            its.result.items)]
                  ELSE apply_invoice_config(
                           Invoice(co.party, cu.party, its.result.items),
                           invoice_config),
              stdout |-> its.stdout]

(***************************************************************************)
(* SpecGenerator: one call of create_invoice.  The item dicts are a good   *)
(* one and variants of it with one key missing, None or out of range; the  *)
(* item lists have up to two of them, or three of a few.                   *)
(***************************************************************************)
ItemData(description, hsn_code, quantity, unit_price, rate, discount_amount) ==
    [description |-> description, hsn_code |-> hsn_code,
     quantity |-> quantity, unit_price |-> unit_price,
     gst_rate |-> rate, discount_percentage |-> Absent,
     discount_amount |-> discount_amount]

T_8471 == <<"8", "4", "7", "1">>

GoodItemData ==
    ItemData(Val("Laptop"), Val(T_8471), Val(Qty(1)), Val(10000), Absent,
             Absent)

GeneratorItems ==
    { GoodItemData,
      [GoodItemData EXCEPT !.description = Val("Mouse"),
                           !.gst_rate = Val(Percent(15))],
      [GoodItemData EXCEPT !.gst_rate = Val(Percent(5))],
      [GoodItemData EXCEPT !.gst_rate = Val(Percent(100))],
      [GoodItemData EXCEPT !.gst_rate = Val(Percent(150))],
      [GoodItemData EXCEPT !.gst_rate = Val(-Percent(1))],
      [GoodItemData EXCEPT !.gst_rate = NoneValue],
      [GoodItemData EXCEPT !.description = Absent],
      [GoodItemData EXCEPT !.description = NoneValue],
      [GoodItemData EXCEPT !.description = Val("")],
      [GoodItemData EXCEPT !.hsn_code = Absent],
      [GoodItemData EXCEPT !.hsn_code = NoneValue],
      [GoodItemData EXCEPT !.hsn_code = Val(<<"8", "4">>)],
      [GoodItemData EXCEPT !.hsn_code = Val(<<"8", "4", "-", "7", "1">>)],
      [GoodItemData EXCEPT !.quantity = Absent],
      [GoodItemData EXCEPT !.quantity = Val(0)],
      [GoodItemData EXCEPT !.unit_price = NoneValue],
      [GoodItemData EXCEPT !.unit_price = Val(-1)],
      [GoodItemData EXCEPT !.unit_price = Val(0),
                           !.discount_amount = Val(100)] }

GeneratorFewItems ==
    { GoodItemData,
      [GoodItemData EXCEPT !.description = Val("Mouse"),
                           !.gst_rate = Val(Percent(15))],
      [GoodItemData EXCEPT !.hsn_code = Val(<<"8", "4">>)],
      [GoodItemData EXCEPT !.quantity = Val(0)] }

GeneratorItemLists ==
    {<<>>}
    \cup {<<a>> : a \in GeneratorItems}
    \cup {<<a, b>> : a \in GeneratorItems, b \in GeneratorItems}
    \cup {<<a, b, c>> : a \in GeneratorFewItems, b \in GeneratorFewItems,
                        c \in GeneratorFewItems}

PartyData(name, state, gstin) ==
    [name |-> name, address |-> Val("12 Main Road"), city |-> Val("Pune"),
     state |-> state, pincode |-> Val("411001"), gstin |-> gstin]

T_Maharashtra == <<"M", "a", "h", "a", "r", "a", "s", "h", "t", "r", "a">>

GeneratorParties ==
    { PartyData(Val("Acme"), Val(T_Maharashtra), Absent),
      PartyData(Val("Acme"), Val(T_Maharashtra), Val(T_GSTIN)),
      PartyData(Val("Acme"), Val(T_Maharashtra), Val(G_Seller27)),
      PartyData(Val(""), Val(T_Maharashtra), NoneValue),
      PartyData(Val("Acme"), Absent, Val(<<>>)) }

GeneratorConfigs == {"None", "notes: thanks", "invoice_date: not-a-date"}

InitGenerator ==
    /\ gen_read = NotCalled
    /\ words_read = NotCalled
    /\ HSN_DATABASE = <<>>
    /\ hsn_read = NotCalled
    /\ gstin_read = NotCalled
    /\ rate_read = NotCalled
    /\ GstUnused
    /\ ItemUnused
    /\ InvoiceUnused
    /\ ConfigUnused

CallCreateInvoice ==
    /\ gen_read = NotCalled
    /\ \E co \in GeneratorParties, cu \in GeneratorParties,
          d \in GeneratorItemLists, cfg \in GeneratorConfigs :
           LET r == create_invoice(co, cu, d, cfg)
           IN  gen_read' = [st |-> "called", company_data |-> co,
                            customer_data |-> cu, items_data |-> d,
                            invoice_config |-> cfg,
                            result |-> r.result, stdout |-> r.stdout]
    /\ UNCHANGED <<words_read, HSN_DATABASE, hsn_read, gstin_read, rate_read>>
    /\ UNCHANGED <<model_vars, config_vars>>

NextGenerator == CallCreateInvoice

SpecGenerator == InitGenerator /\ [][NextGenerator]_vars

(***************************************************************************)
(* SpecItemFields: an Invoice whose items the caller still holds.          *)
(* InvoiceItem is declared with a bare @dataclass, which is not frozen:    *)
(* its instances take attribute assignment, and an assignment runs neither *)
(* the conversions nor the checks of __post_init__.  The invoice's list    *)
(* holds the very object the caller assigns to.                            *)
(***************************************************************************)
\* At most this many items of an invoice are assigned to.
MaxAssignments == 1

\* (attribute, value) of the assignments item.<attribute> = <value>.
ItemAssignments ==
    { <<"quantity", -Qty(1)>>, <<"quantity", 0>>, <<"quantity", Qty(2)>>,
      <<"unit_price", -1>>, <<"gst_rate", Percent(100) + 1>> }

\* setattr(item, name, value) on a dataclass that is not frozen.
setattr(it, name, value) == [it EXCEPT ![name] = value]

InitItemFields ==
    /\ company = Party(<<"D", "e", "l", "h", "i">>, None)
    /\ customer = Party(<<"O", "d", "i", "s", "h", "a">>, None)
    /\ items \in { <<>> } \cup { <<x>> : x \in InvoiceItems }
    /\ interstate_read = NotCalled
    /\ totals_read = NotCalled
    /\ tax_summary_read = NotCalled
    /\ items_op = NotCalled
    /\ GstUnused
    /\ ItemUnused
    /\ ServiceUnused

SetItemAttr ==
    /\ Cardinality({ k \in 1..Len(items) : items[k] \notin InvoiceItems })
           < MaxAssignments
    /\ \E k \in 1..Len(items), a \in ItemAssignments :
           /\ items' = [items EXCEPT ![k] = setattr(items[k], a[1], a[2])]
           /\ items_op' = [st |-> "ok", op |-> "setattr", index |-> k - 1,
                           name |-> a[1], value |-> a[2]]
    /\ totals_read' = NotCalled
    /\ tax_summary_read' = NotCalled
    /\ UNCHANGED <<company, customer, interstate_read, gst_vars, item_vars,
                   service_vars>>

NextItemFields ==
    \/ AddItem
    \/ RemoveItem
    \/ SetItemAttr
    \/ ReadTotals

SpecItemFields == InitItemFields /\ [][NextItemFields]_vars

(***************************************************************************)
(* SpecHsnShared: one caller inside auto_suggest_hsn or                    *)
(* get_multiple_suggestions while another calls add_custom_hsn.            *)
(* HSN_DATABASE is a class attribute, one dict for all callers.  The       *)
(* reader's `for hsn_code, info in cls.HSN_DATABASE.items()` holds a dict   *)
(* iterator: each next() first compares the dict's size with the size at   *)
(* the iterator's creation and raises RuntimeError if they differ, then    *)
(* yields the entry at its position, read from the dict as it is now.      *)
(* The loop body works on the entry it was handed and on local variables,  *)
(* so the writer's assignment falls between two next() calls.  hsn_read is *)
(* the reader's frame, then its outcome.                                   *)
(***************************************************************************)
SharedDescriptions ==
    { <<"l", "a", "p", "t", "o", "p">>,
      <<"p", "e", "n", "c", "i", "l", " ", "b", "l", "a", "c", "k", " ", "t", "e", "a">>,
      <<>> }

SharedLimits == { 1, 3 }

\* The reader's locals after `suggestions = []`, the iterator just created.
ReaderFrame(op, d, limit, db) ==
    [st |-> "running", op |-> op, item_description |-> d, limit |-> limit,
     catalog |-> db, description_lower |-> strip(lower(d)),
     size |-> Len(db), pos |-> 0, suggestions |-> <<>>]

ReaderOutcome(op, d, limit, db, result) ==
    [st |-> "ok", op |-> op, item_description |-> d, limit |-> limit,
     catalog |-> db, result |-> result]

\* auto_suggest_hsn after its loop: sort by score, return the best match.
auto_suggest_return(found) ==
    LET suggestions ==
            stable_sort_desc(found, [i \in 1..Len(found) |-> found[i].score])
    IN  IF suggestions # <<>>
        THEN LET best_match == suggestions[1]
             IN  [st |-> "ok", none |-> FALSE,
                  hsn_code |-> best_match.hsn_code,
                  description |-> best_match.description,
                  typical_gst |-> best_match.typical_gst,
                  confidence |-> Min(best_match.score * 10, 100)]
        ELSE PyNone

\* get_multiple_suggestions after its loop: sort by confidence, slice.
multiple_suggestions_return(found, limit) ==
    [st |-> "ok",
     list |-> slice_to(stable_sort_desc(found,
                           [i \in 1..Len(found) |-> found[i].confidence]),
                       limit)]

\* One pass of the loop body for the entry the iterator yielded.
loop_body(frame, entry) ==
    IF frame.op = "auto_suggest_hsn"
    THEN auto_suggestions_from(frame.suggestions, <<entry>>,
                               frame.description_lower)
    ELSE multiple_suggestions_from(frame.suggestions, <<entry>>,
                                   frame.description_lower)

reader_return(frame) ==
    IF frame.op = "auto_suggest_hsn"
    THEN auto_suggest_return(frame.suggestions)
    ELSE multiple_suggestions_return(frame.suggestions, frame.limit)

\* next() of the dict iterator, then the loop body or the code after the loop.
reader_next(frame, db) ==
    IF Len(db) # frame.size
    THEN ReaderOutcome(frame.op, frame.item_description, frame.limit,
                       frame.catalog,
                       Raise("RuntimeError",
                             "dictionary changed size during iteration"))
    ELSE IF frame.pos < Len(db)
    THEN [frame EXCEPT !.pos = frame.pos + 1,
                       !.suggestions = loop_body(frame, db[frame.pos + 1])]
    ELSE ReaderOutcome(frame.op, frame.item_description, frame.limit,
                       frame.catalog, reader_return(frame))

InitHsnShared ==
    /\ HSN_DATABASE = HSN_DATABASE_literal
    /\ hsn_read = NotCalled
    /\ words_read = NotCalled
    /\ gstin_read = NotCalled
    /\ rate_read = NotCalled
    /\ gen_read = NotCalled
    /\ GstUnused
    /\ ItemUnused
    /\ InvoiceUnused
    /\ ConfigUnused

\* The reader enters auto_suggest_hsn.
ReaderCallAutoSuggestHsn ==
    /\ hsn_read = NotCalled
    /\ \E d \in SharedDescriptions :
           hsn_read' =
               IF d = <<>>
               THEN ReaderOutcome("auto_suggest_hsn", d, 3, HSN_DATABASE,
                                  PyNone)
               ELSE ReaderFrame("auto_suggest_hsn", d, 3, HSN_DATABASE)
    /\ UNCHANGED <<HSN_DATABASE, words_read, gstin_read, rate_read, gen_read>>
    /\ UNCHANGED <<model_vars, config_vars>>

\* The reader enters get_multiple_suggestions.
ReaderCallGetMultipleSuggestions ==
    /\ hsn_read = NotCalled
    /\ \E d \in SharedDescriptions, limit \in SharedLimits :
           hsn_read' =
               IF d = <<>>
               THEN ReaderOutcome("get_multiple_suggestions", d, limit,
                                  HSN_DATABASE, [st |-> "ok", list |-> <<>>])
               ELSE ReaderFrame("get_multiple_suggestions", d, limit,
                                HSN_DATABASE)
    /\ UNCHANGED <<HSN_DATABASE, words_read, gstin_read, rate_read, gen_read>>
    /\ UNCHANGED <<model_vars, config_vars>>

ReaderNext ==
    /\ hsn_read.st = "running"
    /\ hsn_read' = reader_next(hsn_read, HSN_DATABASE)
    /\ UNCHANGED <<HSN_DATABASE, words_read, gstin_read, rate_read, gen_read>>
    /\ UNCHANGED <<model_vars, config_vars>>

\* Another caller's add_custom_hsn, from entry to return.
WriterAddCustomHsn ==
    /\ \E c \in HsnCustomCodes, g \in HsnCustomRates :
           HSN_DATABASE' = add_custom_hsn(HSN_DATABASE, c, "Custom", g).db
    /\ UNCHANGED <<hsn_read, words_read, gstin_read, rate_read, gen_read>>
    /\ UNCHANGED <<model_vars, config_vars>>

NextHsnShared ==
    \/ ReaderCallAutoSuggestHsn
    \/ ReaderCallGetMultipleSuggestions
    \/ ReaderNext
    \/ WriterAddCustomHsn

SpecHsnShared == InitHsnShared /\ [][NextHsnShared]_vars

(***************************************************************************)
(* SpecConfig: one ConfigManager.  Its dicts are objects: heap[id] is the  *)
(* dict with the number id, a function from keys to values, and a value is *)
(* a scalar Val(v) or a reference DictRef(id) to a dict; two references to *)
(* one number are one dict.  dict.copy() makes a new dict with the same    *)
(* values, references included (a shallow copy).  Scalars are written as   *)
(* strings, "5" for the int 5.  Of the default configuration the sections  *)
(* voice (timeout) and gui (theme, colors.primary) are kept; the other     *)
(* sections and keys are treated by the code in the same way.              *)
(***************************************************************************)
\* At most this many dicts are created by one ConfigManager.
MaxDicts == 10

DictRef(id) == [k |-> "dict", id |-> id]

\* A dict written out, as in a literal or in a JSON file: keys to values.
JDict(d) == [k |-> "dict", d |-> d]

EmptyDict == [key \in {} |-> Val("")]

\* d[key] = v
dict_set(d, key, v) ==
    [n \in DOMAIN d \cup {key} |-> IF n = key THEN v ELSE d[n]]

\* d.copy(): the new dict is the last of the heap returned.
dict_copy(heap, id) == Append(heap, heap[id])

\* The keys of the model, in the order dicts are walked in.
KeyNames ==
    <<"voice", "timeout", "gui", "theme", "colors", "primary", "extra", "x">>

\* for key in d
dict_keys(d) == SelectSeq(KeyNames, LAMBDA n : n \in DOMAIN d)

(***************************************************************************)
(* The dicts a dict literal or json.load creates for the written value jv: *)
(* [heap, v] with v the value, a reference to the new dict for a dict.     *)
(***************************************************************************)
RECURSIVE new_value(_, _)
RECURSIVE new_items(_, _, _, _)
new_value(heap, jv) ==
    IF jv.k # "dict" THEN [heap |-> heap, v |-> jv]
    ELSE LET h1 == Append(heap, EmptyDict)
         IN  [heap |-> new_items(h1, Len(h1), jv.d, dict_keys(jv.d)),
              v |-> DictRef(Len(h1))]

new_items(heap, id, d, keys) ==
    IF keys = <<>> THEN heap
    ELSE LET r == new_value(heap, d[Head(keys)])
         IN  new_items([r.heap EXCEPT ![id] = dict_set(@, Head(keys), r.v)],
                       id, d, Tail(keys))

\* json.dump of a value: the dicts written out.
RECURSIVE json_dump(_, _)
json_dump(heap, v) ==
    IF v.k # "dict" THEN v
    ELSE JDict([n \in DOMAIN heap[v.id] |-> json_dump(heap, heap[v.id][n])])

\* The value _get_default_config returns, written out.
DefaultConfig ==
    JDict([voice |-> JDict([timeout |-> Val("5")]),
           gui   |-> JDict([theme |-> Val("dark"),
                            colors |-> JDict([primary |-> Val("#2c3e50")])])])

get_default_config(heap) == new_value(heap, DefaultConfig)

(***************************************************************************)
(* ConfigManager._merge_configs(default, user) for the dicts numbered      *)
(* default and user: [heap, id] with id the merged dict.                   *)
(***************************************************************************)
RECURSIVE merge_configs(_, _, _)
RECURSIVE merge_items(_, _, _, _)
merge_configs(heap, default, user) ==
    LET h1 == dict_copy(heap, default)
    IN  [heap |-> merge_items(h1, Len(h1), user, dict_keys(heap[user])),
         id |-> Len(h1)]

\* for key, value in user.items(): ...
merge_items(heap, merged, user, keys) ==
    IF keys = <<>> THEN heap
    ELSE LET key == Head(keys)
             value == heap[user][key]
         IN  IF /\ key \in DOMAIN heap[merged]
                /\ heap[merged][key].k = "dict"
                /\ value.k = "dict"
             THEN LET r == merge_configs(heap, heap[merged][key].id, value.id)
                  IN  merge_items(
                          [r.heap EXCEPT
                              ![merged] = dict_set(@, key, DictRef(r.id))],
                          merged, user, Tail(keys))
             ELSE merge_items(
                      [heap EXCEPT ![merged] = dict_set(@, key, value)],
                      merged, user, Tail(keys))

\* config.json: not there, not JSON, or a JSON object.
FileAbsent == [k |-> "absent"]

FileCorrupt == [k |-> "corrupt"]

(***************************************************************************)
(* ConfigManager._load_user_config: [heap, id, file] with id the dict      *)
(* returned and file the content of config.json afterwards.                *)
(***************************************************************************)
load_user_config(heap, default, file) ==
    IF file.k = "absent"
    THEN [heap |-> dict_copy(heap, default), id |-> Len(heap) + 1,
          file |-> json_dump(heap, DictRef(default))]
    ELSE IF file.k = "corrupt"
    THEN [heap |-> dict_copy(heap, default), id |-> Len(heap) + 1,
          file |-> file]
    ELSE LET user_config == new_value(heap, file)
             merged_config == merge_configs(user_config.heap, default,
                                            user_config.v.id)
         IN  [heap |-> merged_config.heap, id |-> merged_config.id,
              file |-> file]

\* ConfigManager(config_dir) with config.json as given.
ConfigManager(file) ==
    LET default_config == get_default_config(<<>>)
        user_config == load_user_config(default_config.heap,
                                        default_config.v.id, file)
    IN  [st |-> "ok",
         heap |-> user_config.heap,
         default_config |-> default_config.v.id,
         user_config |-> user_config.id,
         config_file |-> user_config.file]

(***************************************************************************)
(* ConfigManager.get(key_path, default), key_path as key_path.split('.').  *)
(* A missing key (KeyError) and a step into a scalar (TypeError) give the  *)
(* default.  A dict is returned written out.                               *)
(***************************************************************************)
RECURSIVE get_from(_, _, _, _)
get_from(heap, value, keys, dflt) ==
    IF keys = <<>> THEN value
    ELSE IF value.k # "dict" THEN dflt
    ELSE IF Head(keys) \notin DOMAIN heap[value.id] THEN dflt
    ELSE get_from(heap, heap[value.id][Head(keys)], Tail(keys), dflt)

get(cm, keys, dflt) ==
    json_dump(cm.heap, get_from(cm.heap, DictRef(cm.user_config), keys, dflt))

(***************************************************************************)
(* ConfigManager.set(key_path, value): the walk to the parent of the last  *)
(* key, which puts a new dict at each missing key, then the assignment.    *)
(* A scalar on the way raises TypeError where the walk stands; the dicts   *)
(* made up to there stay.                                                  *)
(***************************************************************************)
RECURSIVE set_from(_, _, _, _)
set_from(heap, config, keys, value) ==
    IF config.k # "dict"
    THEN [heap |-> heap,
          result |-> Raise("TypeError", "not a dict on the key path")]
    ELSE IF Len(keys) = 1
    THEN [heap |-> [heap EXCEPT ![config.id] = dict_set(@, keys[1], value)],
          result |-> PyNone]
    ELSE LET key == Head(keys)
             h0  == Append(heap, EmptyDict)
             h1  == IF key \in DOMAIN heap[config.id] THEN heap
                    ELSE [h0 EXCEPT
                             ![config.id] = dict_set(@, key, DictRef(Len(h0)))]
         IN  set_from(h1, h1[config.id][key], Tail(keys), value)

\* [cm, result]: the manager afterwards and None or the error raised.
set(cm, keys, value) ==
    LET r == set_from(cm.heap, DictRef(cm.user_config), keys, value)
    IN  [cm |-> [cm EXCEPT
                    !.heap = r.heap,
                    !.config_file =
                        IF r.result.st = "raise" THEN @
                        ELSE json_dump(r.heap, DictRef(cm.user_config))],
         result |-> r.result]

\* ConfigManager.reset_to_defaults()
reset_to_defaults(cm) ==
    LET h == dict_copy(cm.heap, cm.default_config)
    IN  [cm EXCEPT !.heap = h,
                   !.user_config = Len(h),
                   !.config_file = json_dump(h, DictRef(Len(h)))]

\* config.json before the manager is constructed.
ConfigFiles ==
    { FileAbsent, FileCorrupt,
      JDict([gui |-> JDict([theme |-> Val("light")])]),
      JDict([voice |-> JDict([timeout |-> Val("7")])]) }

\* key_path arguments, split at the dots.
ConfigKeyPaths ==
    { <<"voice", "timeout">>, <<"gui", "theme">>,
      <<"gui", "colors", "primary">>, <<"voice">>, <<"extra", "x">> }

ConfigValues == { Val("9") }

InitConfig ==
    /\ config_manager = NotCalled
    /\ config_read = NotCalled
    /\ words_read = NotCalled
    /\ HSN_DATABASE = <<>>
    /\ hsn_read = NotCalled
    /\ gstin_read = NotCalled
    /\ rate_read = NotCalled
    /\ gen_read = NotCalled
    /\ GstUnused
    /\ ItemUnused
    /\ InvoiceUnused

ConstructConfigManager ==
    /\ config_manager = NotCalled
    /\ \E file \in ConfigFiles : config_manager' = ConfigManager(file)
    /\ config_read' = [st |-> "ok", op |-> "ConfigManager"]
    /\ UNCHANGED <<words_read, HSN_DATABASE, hsn_read, gstin_read, rate_read,
                   gen_read, model_vars>>

CallGet ==
    /\ config_manager.st = "ok"
    /\ \E keys \in ConfigKeyPaths :
           config_read' = [st |-> "ok", op |-> "get", key_path |-> keys,
                           result |-> get(config_manager, keys, Val("None"))]
    /\ UNCHANGED <<config_manager, words_read, HSN_DATABASE, hsn_read,
                   gstin_read, rate_read, gen_read, model_vars>>

CallSet ==
    /\ config_manager.st = "ok"
    /\ \E keys \in ConfigKeyPaths, value \in ConfigValues :
           LET r == set(config_manager, keys, value)
           IN  /\ Len(r.cm.heap) <= MaxDicts
               /\ config_manager' = r.cm
               /\ config_read' = [st |-> "ok", op |-> "set",
                                  key_path |-> keys, value |-> value,
                                  result |-> r.result]
    /\ UNCHANGED <<words_read, HSN_DATABASE, hsn_read, gstin_read, rate_read,
                   gen_read, model_vars>>

CallResetToDefaults ==
    /\ config_manager.st = "ok"
    /\ Len(config_manager.heap) < MaxDicts
    /\ config_manager' = reset_to_defaults(config_manager)
    /\ config_read' = [st |-> "ok", op |-> "reset_to_defaults"]
    /\ UNCHANGED <<words_read, HSN_DATABASE, hsn_read, gstin_read, rate_read,
                   gen_read, model_vars>>

NextConfig ==
    \/ ConstructConfigManager
    \/ CallGet
    \/ CallSet
    \/ CallResetToDefaults

SpecConfig == InitConfig /\ [][NextConfig]_vars

(***************************************************************************)
(* What "round-half-up to 2 decimals" means, stated without computing it:  *)
(* r is a nearest integer to num/den, and on a tie the one of the larger   *)
(* magnitude.                                                              *)
(***************************************************************************)
IsRoundHalfUp(num, den, r) ==
    /\ 2 * Abs(r * den - num) <= den
    /\ (2 * Abs(r * den - num) = den) => (Abs(r) * den > Abs(num))

WholePaise(mills) == mills % MillsPerPaisa = 0

RateInRange(rate) == 0 <= rate /\ rate <= Percent(100)

BothSplitsReturned ==
    /\ res_intra.st = "ok"
    /\ res_inter.st = "ok"
    /\ WholePaise(gst_amount)

(***************************************************************************)
(* C1 (as stated): for every taxable amount >= 0 in whole paise and every  *)
(* rate in [0,100], the intrastate breakdown has cgst_amount = sgst_amount *)
(* and cgst_amount + sgst_amount equals the igst_amount of the interstate  *)
(* breakdown of the same amount and rate.                                  *)
(***************************************************************************)
C1_SplitEqualsIgst ==
    BothSplitsReturned =>
        /\ res_intra.cgst_amount = res_intra.sgst_amount
        /\ res_intra.cgst_amount + res_intra.sgst_amount = res_inter.igst_amount

(***************************************************************************)
(* C1 (amended): for every taxable amount >= 0 in whole paise and every    *)
(* rate in [0,100], the intrastate breakdown has cgst_amount = sgst_amount *)
(* and cgst_amount + sgst_amount differs from the interstate igst_amount   *)
(* by at most one paisa (0.01).                                            *)
(***************************************************************************)
C1_SplitWithinOnePaisaOfIgst ==
    BothSplitsReturned =>
        /\ res_intra.cgst_amount = res_intra.sgst_amount
        /\ Abs(res_intra.cgst_amount + res_intra.sgst_amount
               - res_inter.igst_amount) <= 1

C1_Witness ==
    /\ BothSplitsReturned
    /\ gst_amount > 0
    /\ gst_rate = Percent(18)
    /\ res_intra.cgst_amount > 0
    /\ res_intra.cgst_amount + res_intra.sgst_amount = res_inter.igst_amount + 1

(***************************************************************************)
(* C8: calculate_gst_breakdown raises the invalid-input error (ValueError) *)
(* and returns nothing iff taxable_amount < 0 or gst_rate < 0 or           *)
(* gst_rate > 100; otherwise its result has total_tax = cgst + sgst + igst,*)
(* total_amount = round2(taxable_amount + total_tax), igst_amount = 0 when *)
(* intrastate and cgst_amount = sgst_amount = 0 when interstate.           *)
(***************************************************************************)
BreakdownContract(res, interstate) ==
    /\ res.st \in {"ok", "raise"}
    /\ (res.st = "raise") <=> (gst_amount < 0 \/ ~RateInRange(gst_rate))
    /\ (res.st = "raise") => res.error = "ValueError"
    /\ (res.st = "ok") =>
        /\ res.total_tax = res.cgst_amount + res.sgst_amount + res.igst_amount
        /\ IsRoundHalfUp(res.taxable_amount + Paise(res.total_tax),
                         MillsPerPaisa, res.total_amount)
        /\ res.taxable_amount = gst_amount
        /\ interstate => (res.cgst_amount = 0 /\ res.sgst_amount = 0)
        /\ ~interstate => res.igst_amount = 0

C8_BreakdownFailsIffInvalid ==
    /\ (res_intra # NotCalled) => BreakdownContract(res_intra, FALSE)
    /\ (res_inter # NotCalled) => BreakdownContract(res_inter, TRUE)

C8_Witness ==
    /\ res_intra.st = "ok"
    /\ res_inter.st = "ok"
    /\ gst_rate = Percent(100)
    /\ ~WholePaise(gst_amount)
    /\ res_inter.igst_amount > 0

(***************************************************************************)
(* C9: round trip.  For every taxable amount t >= 0 in whole paise and     *)
(* every rate r in [0,100], calculate_reverse_gst applied to the           *)
(* total_amount of the intrastate breakdown of (t, r) returns a            *)
(* taxable_amount within 0.01 of t, and exactly 1000.00 for t = 1000.00,   *)
(* r = 18.                                                                 *)
(***************************************************************************)
C9_ReverseRoundTrip ==
    (res_rev # NotCalled /\ WholePaise(gst_amount)) =>
        /\ res_rev.st = "ok"
        /\ Abs(res_rev.taxable_amount - gst_amount) <= Paise(1)
        /\ (gst_amount = Rupees(1000) /\ gst_rate = Percent(18)) =>
               res_rev.taxable_amount = Rupees(1000)

C9_Witness ==
    /\ gst_amount = Rupees(1000)
    /\ gst_rate = Percent(18)
    /\ res_intra.st = "ok"
    /\ res_intra.total_amount = 118000
    /\ res_rev.st = "ok"
    /\ res_rev.taxable_amount = Rupees(1000)


(***************************************************************************)
(* C2: every constructed InvoiceItem follows the rounding chain, rounding  *)
(* half-up to 2 decimals at every step:                                    *)
(*   gross_amount = round2(quantity * unit_price);                         *)
(*   total_discount = round2(round2(gross * discount_percentage / 100)     *)
(*                           + discount_amount);                           *)
(*   taxable_amount = round2(gross_amount - total_discount);               *)
(*   cgst_amount = sgst_amount = round2(taxable * gst_rate / 2 / 100);     *)
(*   total_amount = round2(taxable + cgst + sgst).                         *)
(* Quantity 1 at 65000 with 5% discount and 18% GST gives 65000.00 /       *)
(* 3250.00 / 61750.00 / 5557.50 each / 72865.00, and a 100% discount with  *)
(* no fixed discount gives taxable, tax and total all 0.                   *)
(***************************************************************************)
C2_RoundingChain ==
    (item.st = "ok") =>
        /\ IsRoundHalfUp(item.quantity * item.unit_price, QtyDen,
                         gross_amount(item))
        /\ IsRoundHalfUp(gross_amount(item) * item.discount_percentage,
                         100 * RateDen,
                         total_discount(item) - item.discount_amount)
        /\ taxable_amount(item) = gross_amount(item) - total_discount(item)
        /\ cgst_amount(item) = sgst_amount(item)
        /\ IsRoundHalfUp(taxable_amount(item) * item.gst_rate,
                         2 * 100 * RateDen, cgst_amount(item))
        /\ total_amount(item) =
               taxable_amount(item) + cgst_amount(item) + sgst_amount(item)
        /\ (item_args = LaptopArgs) =>
               /\ gross_amount(item) = 6500000
               /\ total_discount(item) = 325000
               /\ taxable_amount(item) = 6175000
               /\ cgst_amount(item) = 555750
               /\ sgst_amount(item) = 555750
               /\ total_amount(item) = 7286500
        /\ (item.discount_percentage = Percent(100)
            /\ item.discount_amount = 0) =>
               /\ taxable_amount(item) = 0
               /\ cgst_amount(item) = 0
               /\ sgst_amount(item) = 0
               /\ total_tax_amount(item) = 0
               /\ total_amount(item) = 0

C2_Witness ==
    /\ item.st = "ok"
    /\ item_args = LaptopArgs
    /\ total_amount(item) = 7286500

(***************************************************************************)
(* C6: every InvoiceItem that can be constructed has                       *)
(* 0 <= total_discount <= gross_amount, hence 0 <= taxable_amount <=       *)
(* gross_amount and non-negative tax: an item whose discounts would break  *)
(* this is rejected at construction (or its taxable amount clamped to 0).  *)
(***************************************************************************)
C6_DiscountWithinGross ==
    (item.st = "ok") =>
        /\ 0 <= total_discount(item)
        /\ total_discount(item) <= gross_amount(item)
        /\ 0 <= taxable_amount(item)
        /\ taxable_amount(item) <= gross_amount(item)
        /\ 0 <= cgst_amount(item)
        /\ 0 <= sgst_amount(item)
        /\ 0 <= igst_amount(item)
        /\ 0 <= total_tax_amount(item)

(***************************************************************************)
(* C7: constructing an InvoiceItem raises an error and yields no item      *)
(* whenever quantity <= 0, unit_price < 0, gst_rate < 0 or gst_rate > 100, *)
(* and succeeds, storing the arguments, for quantity > 0, unit_price >= 0  *)
(* and 0 <= gst_rate <= 100 (price 0, rate 0 and rate 100 included).       *)
(***************************************************************************)
C7_ConstructionFailsIffInvalid ==
    (item # NotCalled) =>
        /\ item.st \in {"ok", "raise"}
        /\ (item.st = "raise") <=>
               \/ item_args.quantity <= 0
               \/ item_args.unit_price < 0
               \/ ~RateInRange(item_args.gst_rate)
        /\ (item.st = "raise") => item.error = "ValueError"
        /\ (item.st = "ok") =>
               /\ item.quantity = item_args.quantity
               /\ item.unit_price = item_args.unit_price
               /\ item.gst_rate = item_args.gst_rate
               /\ item.discount_percentage = item_args.discount_percentage
               /\ item.discount_amount = item_args.discount_amount

C7_Witness ==
    /\ item.st = "ok"
    /\ item_args.unit_price = 0
    /\ item_args.gst_rate = Percent(100)
    /\ item_args.quantity = 1


\* The state a spelling names, from the hand-written table.
StateToken(text) == (CHOOSE sp \in StateSpellings : sp.text = text).token

NamesDiffer == StateToken(company.state) # StateToken(customer.state)

(***************************************************************************)
(* C3: Invoice.is_interstate decides by tax-ID prefix only when both the   *)
(* seller and the buyer have an ID of exactly 15 characters, and then      *)
(* interstate holds iff the first two characters differ; when either ID is *)
(* absent, empty or not 15 characters long the result is the one the       *)
(* normalized state names give.                                            *)
(***************************************************************************)
C3_IdPrefixOnlyForValidLengthIds ==
    (interstate_read.st = "ok") =>
        interstate_read.value =
            IF is_gst_registered(company) /\ is_gst_registered(customer)
            THEN prefix2(company.gstin.s) # prefix2(customer.gstin.s)
            ELSE NamesDiffer

IsZero(x) == x.st = "ok" /\ x.v = 0

(***************************************************************************)
(* C5: for an Invoice whose item list is empty, every derived total        *)
(* (gross, discount, taxable, CGST, SGST, IGST, tax, invoice amount) is    *)
(* zero and raises no error, and total_amount_in_words is                  *)
(* "Zero Rupees Only".                                                     *)
(***************************************************************************)
C5_EmptyInvoiceTotalsAreZero ==
    (items = <<>> /\ totals_read.st = "ok") =>
        /\ IsZero(totals_read.total_gross_amount)
        /\ IsZero(totals_read.total_discount_amount)
        /\ IsZero(totals_read.total_taxable_amount)
        /\ IsZero(totals_read.total_cgst_amount)
        /\ IsZero(totals_read.total_sgst_amount)
        /\ IsZero(totals_read.total_igst_amount)
        /\ IsZero(totals_read.total_tax_amount)
        /\ IsZero(totals_read.total_invoice_amount)
        /\ totals_read.total_amount_in_words.st = "ok"
        /\ totals_read.total_amount_in_words.s = "Zero Rupees Only"

\* The sum of amount(item) over the items now in the list, last item first.
RECURSIVE SumFromEnd(_)
SumFromEnd(amounts) ==
    IF amounts = <<>> THEN 0
    ELSE amounts[Len(amounts)]
         + SumFromEnd(SubSeq(amounts, 1, Len(amounts) - 1))

SumOfItems(amount(_)) ==
    SumFromEnd([k \in 1..Len(items) |-> amount(items[k])])

IsValue(x, n) == x.st = "ok" /\ x.v = n

(***************************************************************************)
(* C10: after any sequence of add_item and remove_item calls, every        *)
(* derived aggregate read (gross, discount, taxable, CGST, SGST, IGST,     *)
(* tax, grand total) equals the value computed from the items now in the   *)
(* list.                                                                   *)
(***************************************************************************)
C10_ReadsMatchCurrentItems ==
    (totals_read.st = "ok") =>
        LET inter == is_interstate(company, customer)
            taxable == SumOfItems(taxable_amount)
            cgst == IF inter THEN 0 ELSE SumOfItems(cgst_amount)
            sgst == IF inter THEN 0 ELSE SumOfItems(sgst_amount)
            igst == IF inter THEN SumOfItems(igst_amount) ELSE 0
        IN  /\ IsValue(totals_read.total_gross_amount,
                       SumOfItems(gross_amount))
            /\ IsValue(totals_read.total_discount_amount,
                       SumOfItems(total_discount))
            /\ IsValue(totals_read.total_taxable_amount, taxable)
            /\ IsValue(totals_read.total_cgst_amount, cgst)
            /\ IsValue(totals_read.total_sgst_amount, sgst)
            /\ IsValue(totals_read.total_igst_amount, igst)
            /\ IsValue(totals_read.total_tax_amount, cgst + sgst + igst)
            /\ IsValue(totals_read.total_invoice_amount,
                       taxable + cgst + sgst + igst)

\* The sum of amount(item) over the items now in the list that bear the rate.
SumOverRate(amount(_), rate) ==
    SumFromEnd([k \in 1..Len(items) |->
                   IF items[k].gst_rate = rate THEN amount(items[k]) ELSE 0])

(***************************************************************************)
(* C11: get_tax_summary has exactly one entry per distinct gst_rate among  *)
(* the items, whatever their HSN codes (none for an empty invoice), and    *)
(* each entry's taxable, CGST, SGST and IGST amounts are the sums, over    *)
(* the items with that rate, of the per-item amounts that apply to the     *)
(* invoice's locality: CGST and SGST intrastate, IGST interstate, the      *)
(* others zero.                                                            *)
(***************************************************************************)
C11_SummaryGroupsByRate ==
    (tax_summary_read.st = "ok") =>
        LET es == tax_summary_read.entries
            inter == is_interstate(company, customer)
        IN  /\ Len(es) =
                   Cardinality({ items[k].gst_rate : k \in 1..Len(items) })
            /\ \A k \in 1..Len(items) :
                   \E j \in 1..Len(es) : es[j].rate = items[k].gst_rate
            /\ \A j \in 1..Len(es) :
                   /\ es[j].taxable_amount =
                          SumOverRate(taxable_amount, es[j].rate)
                   /\ es[j].cgst_amount =
                          IF inter THEN 0
                          ELSE SumOverRate(cgst_amount, es[j].rate)
                   /\ es[j].sgst_amount =
                          IF inter THEN 0
                          ELSE SumOverRate(sgst_amount, es[j].rate)
                   /\ es[j].igst_amount =
                          IF inter THEN SumOverRate(igst_amount, es[j].rate)
                          ELSE 0

\* Three items, two of one rate with different HSN codes: two entries.
C11_Witness ==
    /\ tax_summary_read.st = "ok"
    /\ Len(items) = 3
    /\ is_interstate(company, customer)
    /\ items[1].gst_rate = items[3].gst_rate
    /\ items[1].hsn_code # items[3].hsn_code
    /\ items[2].gst_rate # items[1].gst_rate
    /\ Len(tax_summary_read.entries) = 2
    /\ tax_summary_read.entries[1].igst_amount =
           igst_amount(items[1]) + igst_amount(items[3])

(***************************************************************************)
(* Number names in the Indian system, written as lists of words: the       *)
(* reference the rendering is compared with.                               *)
(***************************************************************************)
NameBelowTwenty ==
    [n \in 1..19 |->
        CASE n = 1 -> "One" [] n = 2 -> "Two" [] n = 3 -> "Three"
          [] n = 4 -> "Four" [] n = 5 -> "Five" [] n = 6 -> "Six"
          [] n = 7 -> "Seven" [] n = 8 -> "Eight" [] n = 9 -> "Nine"
          [] n = 10 -> "Ten" [] n = 11 -> "Eleven" [] n = 12 -> "Twelve"
          [] n = 13 -> "Thirteen" [] n = 14 -> "Fourteen"
          [] n = 15 -> "Fifteen" [] n = 16 -> "Sixteen"
          [] n = 17 -> "Seventeen" [] n = 18 -> "Eighteen"
          [] n = 19 -> "Nineteen"]

NameOfTens ==
    [n \in 2..9 |->
        CASE n = 2 -> "Twenty" [] n = 3 -> "Thirty" [] n = 4 -> "Forty"
          [] n = 5 -> "Fifty" [] n = 6 -> "Sixty" [] n = 7 -> "Seventy"
          [] n = 8 -> "Eighty" [] n = 9 -> "Ninety"]

WordsBelowHundred(n) ==
    IF n = 0 THEN <<>>
    ELSE IF n < 20 THEN <<NameBelowTwenty[n]>>
    ELSE <<NameOfTens[n \div 10]>>
         \o (IF n % 10 = 0 THEN <<>> ELSE <<NameBelowTwenty[n % 10]>>)

\* n below a crore: lakhs and thousands in two digits, then three digits.
WordsBelowCrore(n) ==
    LET lakh == n \div 100000
        thousand == (n % 100000) \div 1000
        hundred == (n % 1000) \div 100
    IN  (IF lakh = 0 THEN <<>> ELSE WordsBelowHundred(lakh) \o <<"Lakh">>)
        \o (IF thousand = 0 THEN <<>>
            ELSE WordsBelowHundred(thousand) \o <<"Thousand">>)
        \o (IF hundred = 0 THEN <<>>
            ELSE <<NameBelowTwenty[hundred], "Hundred">>)
        \o WordsBelowHundred(n % 100)

\* crores * 10000000 + rest: the number of crores is itself a number.
WordsOfRupees(crores, rest) ==
    (IF crores = 0 THEN <<>> ELSE WordsBelowCrore(crores) \o <<"Crore">>)
    \o WordsBelowCrore(rest)

RECURSIVE JoinWords(_)
JoinWords(ws) ==
    IF ws = <<>> THEN ""
    ELSE IF Len(ws) = 1 THEN ws[1]
    ELSE ws[1] \o " " \o JoinWords(Tail(ws))

WordsOfAmount(a) ==
    IF a.crores = 0 /\ a.rest = 0 /\ a.paise = 0 THEN "Zero Rupees Only"
    ELSE JoinWords(WordsOfRupees(a.crores, a.rest) \o <<"Rupees">>
                   \o (IF a.paise = 0 THEN <<>>
                       ELSE <<"and">> \o WordsBelowHundred(a.paise)
                            \o <<"Paise">>)
                   \o <<"Only">>)

AtLeastOneRupee(a) == a.crores > 0 \/ a.rest > 0

(***************************************************************************)
(* C12: for every non-negative total that is zero or has at least one      *)
(* rupee, including totals of 1000 crore and above, _amount_to_words       *)
(* raises no error and returns the Indian-numbering wording: Crore, Lakh,  *)
(* Thousand, Hundred groups, "Rupees", "and <N> Paise" for a non-zero      *)
(* paise part, "Only" at the end; zero is "Zero Rupees Only" and 72865.00  *)
(* is "Seventy Two Thousand Eight Hundred Sixty Five Rupees Only".         *)
(***************************************************************************)
C12_WordsAreIndianNumbering ==
    (words_read.st = "ok"
     /\ (AtLeastOneRupee(words_read.amount) \/ words_read.amount.paise = 0)) =>
        /\ words_read.words.st = "ok"
        /\ words_read.words.s = WordsOfAmount(words_read.amount)
        /\ (words_read.amount = [crores |-> 0, rest |-> 72865, paise |-> 0]
            => words_read.words.s =
                   "Seventy Two Thousand Eight Hundred Sixty Five Rupees Only")

(***************************************************************************)
(* Keyword matching stated on character positions: the reference the two   *)
(* matchers are compared with.  k occupies d[i+1 .. i+Len(k)].             *)
(***************************************************************************)
OccursAt(k, d, i) ==
    /\ i + Len(k) <= Len(d)
    /\ \A j \in 1..Len(k) : d[i + j] = k[j]

IsSubstring(k, d) == \E i \in 0..Len(d) : OccursAt(k, d, i)

\* An occurrence with a space or an end of d on either side.
IsWholeWord(k, d) ==
    \E i \in 0..Len(d) :
        /\ OccursAt(k, d, i)
        /\ (i = 0 \/ d[i] = " ")
        /\ (i + Len(k) = Len(d) \/ d[i + Len(k) + 1] = " ")

IsPrefix(k, d) == OccursAt(k, d, 0)

\* The description in lower case from its first to its last non-blank.
Trimmed(text) ==
    LET inked == { i \in 1..Len(text) : text[i] \notin {" ", "\t", "\n"} }
    IN  IF inked = {} THEN <<>>
        ELSE LET first == CHOOSE i \in inked : \A j \in inked : i <= j
                 last == CHOOSE i \in inked : \A j \in inked : j <= i
             IN  [i \in 1..(last - first + 1) |->
                     lower_char(text[first + i - 1])]

KeywordPoints(k, d, w) ==
    (IF k = d THEN w.exact ELSE IF IsSubstring(k, d) THEN w.part ELSE 0)
    + (IF IsWholeWord(k, d) THEN w.word ELSE 0)
    + (IF IsPrefix(k, d) THEN w.prefix ELSE 0)

\* The score of a catalog entry for the trimmed description d.
EntryPoints(entry, d, w) ==
    IF entry.info.keywords.absent THEN 0
    ELSE LET ks == entry.info.keywords.list
         IN  SumFromEnd([i \in 1..Len(ks) |-> KeywordPoints(ks[i], d, w)])

AutoWeights == [exact |-> 10, part |-> 5, word |-> 3, prefix |-> 2]

MultipleWeights == [exact |-> 10, part |-> 3, word |-> 2, prefix |-> 1]

T_laptop == <<"l", "a", "p", "t", "o", "p">>

(***************************************************************************)
(* C13: auto_suggest_hsn(d) scores each catalog code by its keywords k     *)
(* (10 if k is the lower-cased trimmed d, else 5 if k is a substring of d; *)
(* +3 if k is a whole space-delimited word of d; +2 if d starts with k),   *)
(* returns the code of highest score, the first in catalog order on a tie, *)
(* with confidence min(score*10, 100), and nothing when no score is        *)
(* positive; for "laptop" and a catalog whose code 8471 has the keyword    *)
(* "laptop" it returns 8471 with confidence > 0.                           *)
(***************************************************************************)
C13_AutoSuggestBestScore ==
    (hsn_read.st = "ok" /\ hsn_read.op = "auto_suggest_hsn") =>
        LET db == HSN_DATABASE
            d == Trimmed(hsn_read.item_description)
            points == [k \in 1..Len(db) |-> EntryPoints(db[k], d, AutoWeights)]
            r == hsn_read.result
        IN  /\ (\A k \in 1..Len(db) : points[k] <= 0) => r = PyNone
            /\ (\E k \in 1..Len(db) : points[k] > 0) =>
                   /\ r.st = "ok" /\ ~r.none
                   /\ \E k \in 1..Len(db) :
                          /\ db[k].code = r.hsn_code
                          /\ \A j \in 1..Len(db) : points[j] <= points[k]
                          /\ \A j \in 1..(k - 1) : points[j] < points[k]
                          /\ r.confidence = Min(points[k] * 10, 100)
                          /\ r.description = db[k].info.description
                          /\ r.typical_gst = db[k].info.typical_gst
            /\ (/\ d = T_laptop
                /\ db_has(db, <<"8", "4", "7", "1">>)
                /\ LET ks == info_keywords(db_get(db, <<"8", "4", "7", "1">>))
                   IN  \E i \in 1..Len(ks) : ks[i] = T_laptop)
               => /\ ~r.none
                  /\ r.hsn_code = <<"8", "4", "7", "1">>
                  /\ r.confidence > 0

\* "gold" is a keyword of 7113 and of 7108 alike: the earlier code is returned.
C13_Witness ==
    /\ hsn_read.st = "ok"
    /\ hsn_read.op = "auto_suggest_hsn"
    /\ hsn_read.item_description = <<"g", "o", "l", "d">>
    /\ EntryPoints(HSN_DATABASE[CHOOSE k \in 1..Len(HSN_DATABASE) :
                                    HSN_DATABASE[k].code = <<"7", "1", "0", "8">>],
                   <<"g", "o", "l", "d">>, AutoWeights) = 15
    /\ ~hsn_read.result.none
    /\ hsn_read.result.hsn_code = <<"7", "1", "1", "3">>
    /\ hsn_read.result.confidence = 100

(***************************************************************************)
(* C14: for K >= 0, get_multiple_suggestions(d, K) returns at most K       *)
(* entries, each a catalog code of positive score under the weights        *)
(* exact 10, substring 3, whole word +2, prefix +1 with confidence         *)
(* min(score*8, 100); they are the K candidates of highest confidence (all *)
(* candidates when there are fewer), in non-increasing confidence, and     *)
(* candidates of equal confidence stand in catalog order.                  *)
(***************************************************************************)
C14_MultipleSuggestionsTopK ==
    (/\ hsn_read.st = "ok"
     /\ hsn_read.op = "get_multiple_suggestions"
     /\ hsn_read.limit >= 0) =>
        LET db == HSN_DATABASE
            d == Trimmed(hsn_read.item_description)
            points == [k \in 1..Len(db) |->
                          EntryPoints(db[k], d, MultipleWeights)]
            conf == [k \in 1..Len(db) |-> Min(points[k] * 8, 100)]
            candidates == { k \in 1..Len(db) : points[k] > 0 }
            list == hsn_read.result.list
            at(i) == CHOOSE k \in 1..Len(db) : db[k].code = list[i].hsn_code
        IN  /\ Len(list) <= hsn_read.limit
            /\ Len(list) = Min(hsn_read.limit, Cardinality(candidates))
            /\ \A i \in 1..Len(list) :
                   /\ \E k \in candidates : db[k].code = list[i].hsn_code
                   /\ list[i].confidence = conf[at(i)]
                   /\ list[i].description = db[at(i)].info.description
            /\ \A i \in 1..Len(list), j \in 1..Len(list) :
                   i < j =>
                       \/ list[i].confidence > list[j].confidence
                       \/ /\ list[i].confidence = list[j].confidence
                          /\ at(i) < at(j)
            /\ \A k \in candidates :
                   (\A i \in 1..Len(list) : at(i) # k) =>
                       \A i \in 1..Len(list) :
                           \/ conf[k] < list[i].confidence
                           \/ conf[k] = list[i].confidence /\ at(i) < k

\* "gold", K = 1: of 7113 and 7108, both at confidence 100, the earlier one.
C14_Witness ==
    /\ hsn_read.st = "ok"
    /\ hsn_read.op = "get_multiple_suggestions"
    /\ hsn_read.item_description = <<"g", "o", "l", "d">>
    /\ hsn_read.limit = 1
    /\ Cardinality({ k \in 1..Len(HSN_DATABASE) :
                       EntryPoints(HSN_DATABASE[k], <<"g", "o", "l", "d">>,
                                   MultipleWeights) = 13 }) = 2
    /\ Len(hsn_read.result.list) = 1
    /\ hsn_read.result.list[1].hsn_code = <<"7", "1", "1", "3">>
    /\ hsn_read.result.list[1].confidence = 100

\* The digit characters of a code, in order.
RECURSIVE DigitString(_)
DigitString(code) ==
    IF code = <<>> THEN <<>>
    ELSE LET last == code[Len(code)]
             front == DigitString(SubSeq(code, 1, Len(code) - 1))
         IN  IF last \in {"0", "1", "2", "3", "4", "5", "6", "7", "8", "9"}
             THEN Append(front, last)
             ELSE front

CatalogDescriptions ==
    { HSN_DATABASE_literal[k].info.description :
        k \in 1..Len(HSN_DATABASE_literal) }

\* What get_hsn_info is to return for the code, given the catalog.
HsnInfoExpected(db, code) ==
    LET c == DigitString(code)
        exact == { k \in 1..Len(db) : db[k].code = c }
        parent == { k \in 1..Len(db) : Len(c) \in {6, 8}
                                       /\ db[k].code = SubSeq(c, 1, 4) }
    IN  IF exact # {}
        THEN [st |-> "ok", none |-> FALSE,
              info |-> db[CHOOSE k \in exact : TRUE].info]
        ELSE IF parent # {}
        THEN LET p == db[CHOOSE k \in parent : TRUE].info
             IN  [st |-> "ok", none |-> FALSE,
                  info |-> Info(p.description \o " (sub-category)",
                                p.typical_gst, p.keywords)]
        ELSE PyNone

(***************************************************************************)
(* C18: get_hsn_info(code), code read by its digits, returns the catalog   *)
(* entry of an exact match; for a 6- or 8-digit code absent from the       *)
(* catalog whose first 4 digits are a catalog code, the parent's info with *)
(* " (sub-category)" appended once to the description; otherwise nothing.  *)
(* No call changes the catalog, no stored description gains the suffix,    *)
(* and the same call made again returns the same result.                   *)
(***************************************************************************)
C18_GetHsnInfoLeavesCatalog ==
    /\ [](/\ (hsn_read.st = "ok" /\ hsn_read.op = "get_hsn_info") =>
                 /\ hsn_read.result =
                        HsnInfoExpected(HSN_DATABASE, hsn_read.hsn_code)
                 /\ get_hsn_info(HSN_DATABASE, hsn_read.hsn_code).result =
                        hsn_read.result
          /\ \A k \in 1..Len(HSN_DATABASE) :
                 HSN_DATABASE[k].info.description
                     \in CatalogDescriptions \cup {"Custom"})
    /\ [][(hsn_read'.st = "ok" /\ hsn_read'.op = "get_hsn_info")
              => HSN_DATABASE' = HSN_DATABASE]_vars

\* 847130 is not in the catalog, 8471 is.
C18_Witness ==
    /\ hsn_read.st = "ok"
    /\ hsn_read.op = "get_hsn_info"
    /\ hsn_read.hsn_code = <<"8", "4", "7", "1", "3", "0">>
    /\ ~db_has(HSN_DATABASE, <<"8", "4", "7", "1", "3", "0">>)
    /\ ~hsn_read.result.none
    /\ hsn_read.result.info.description =
           "Automatic data processing machines (sub-category)"
    /\ db_get(HSN_DATABASE, <<"8", "4", "7", "1">>).description =
           "Automatic data processing machines"

(***************************************************************************)
(* C19: validate_hsn_format(code) is true iff the number of digit          *)
(* characters in code is 4, 6 or 8, the other characters not counting; it  *)
(* is false for the empty string and for a string without digits.          *)
(***************************************************************************)
C19_FormatCountsDigits ==
    (hsn_read.st = "ok" /\ hsn_read.op = "validate_hsn_format") =>
        LET code == hsn_read.hsn_code
            digits == { i \in 1..Len(code) :
                          code[i] \in {"0", "1", "2", "3", "4", "5", "6", "7",
                                       "8", "9"} }
        IN  /\ hsn_read.result = (Cardinality(digits) \in {4, 6, 8})
            /\ (digits = {}) => hsn_read.result = FALSE

\* "9983 41": six digits and a space.
C19_Witness ==
    /\ hsn_read.st = "ok"
    /\ hsn_read.op = "validate_hsn_format"
    /\ hsn_read.hsn_code = <<"9", "9", "8", "3", " ", "4", "1">>
    /\ hsn_read.result = TRUE

(***************************************************************************)
(* C15.  validate_gstin accepts an ID iff it has 15 characters, characters *)
(* 0-1 are digits forming a number in 01..37, characters 2-11 are 5        *)
(* letters + 4 digits + 1 letter, character 12 is alphanumeric, character  *)
(* 13 is alphanumeric and character 14 is 'Z'; a rejected ID gets exactly  *)
(* one error, that of the first failing segment in the order length,       *)
(* state code, registration shape, entity code, check digit, suffix.       *)
(* Stated on the ID as it is passed in.                                    *)
(***************************************************************************)
TwoDigits(n) == <<DecimalDigits[(n \div 10) + 1], DecimalDigits[(n % 10) + 1]>>

IsLetter(c) == c \in Letters

\* A digit in the sense of str.isdigit; only the decimal digits form numbers.
IsDigitChar(c) == c \in Digits \cup SuperscriptDigits

IsAlnum(c) == IsLetter(c) \/ IsDigitChar(c)

FirstFailingSegment(id) ==
    IF Len(id) # 15 THEN "length"
    ELSE IF SubSeq(id, 1, 2) \notin {TwoDigits(n) : n \in 1..37}
    THEN "state code"
    ELSE IF ~(/\ \A i \in 3..7 : IsLetter(id[i])
              /\ \A i \in 8..11 : IsDigitChar(id[i])
              /\ IsLetter(id[12]))
    THEN "registration shape"
    ELSE IF ~IsAlnum(id[13]) THEN "entity code"
    ELSE IF ~IsAlnum(id[14]) THEN "check digit"
    ELSE IF id[15] # "Z" THEN "suffix"
    ELSE "none"

SegmentOfError(msg) ==
    CASE msg = "GSTIN cannot be empty" -> "length"
      [] msg = "GSTIN must be 15 characters long" -> "length"
      [] msg = "Invalid state code in GSTIN" -> "state code"
      [] msg = "Invalid PAN format in GSTIN" -> "registration shape"
      [] msg = "Invalid entity code in GSTIN" -> "entity code"
      [] msg = "Invalid check digit in GSTIN" -> "check digit"
      [] msg = "Last character of GSTIN must be 'Z'" -> "suffix"

GstinVerdictMatches(r, id) ==
    /\ r.st = "ok"
    /\ r.is_valid = (FirstFailingSegment(id) = "none")
    /\ r.is_valid => r.error.none
    /\ ~r.is_valid =>
           /\ ~r.error.none
           /\ SegmentOfError(r.error.s) = FirstFailingSegment(id)

C15_GstinAcceptedIffShape ==
    gstin_read.st = "called" =>
        GstinVerdictMatches(gstin_read.result,
                            IF gstin_read.gstin.none THEN <<>>
                            ELSE gstin_read.gstin.s)

(***************************************************************************)
(* C16.  suggest_nearest_gst_rate(rate) returns rate itself when rate is   *)
(* one of the slabs 0, 3, 5, 12, 18, 28; otherwise it returns a slab at    *)
(* the least absolute difference from rate, the lower one when two slabs   *)
(* are equally close (4 -> 3, 15 -> 12, 23 -> 18, 1.5 -> 0).               *)
(***************************************************************************)
Slabs == {Percent(0), Percent(3), Percent(5), Percent(12), Percent(18), Percent(28)}

C16_NearestSlabLowerOnTie ==
    (rate_read.st = "ok" /\ rate_read.op = "suggest_nearest_gst_rate") =>
        LET rate == rate_read.rate
            n == rate_read.result
        IN  /\ rate \in Slabs => n = rate
            /\ n \in Slabs
            /\ \A s \in Slabs : Abs(n - rate) <= Abs(s - rate)
            /\ \A s \in Slabs : Abs(s - rate) = Abs(n - rate) => n <= s
            /\ rate = Percent(4) => n = Percent(3)
            /\ rate = Percent(15) => n = Percent(12)
            /\ rate = Percent(23) => n = Percent(18)
            /\ 2 * rate = Percent(3) => n = Percent(0)
            /\ rate < 0 => n = Percent(0)
            /\ rate > Percent(28) => n = Percent(28)

\* Rate 4 lies as far from 3 as from 5 and gets 3.
C16_Witness ==
    /\ rate_read.st = "ok"
    /\ rate_read.op = "suggest_nearest_gst_rate"
    /\ rate_read.rate = Percent(4)
    /\ rate_read.result = Percent(3)

(***************************************************************************)
(* C17.  Slab membership is advisory: validate_gst_rate is true of every   *)
(* rate in [0,100] and false outside, and when create_invoice creates an   *)
(* item whose rate is in [0,100] but is not a slab, the item is created    *)
(* with that rate and the warning 'not standard, consider using <nearest   *)
(* slab>' is printed.                                                      *)
(***************************************************************************)
\* The rate create_invoice uses for an item dict: 18 when the key is absent.
RateOf(d) == IF d.gst_rate.k = "val" THEN d.gst_rate.v ELSE Percent(18)

IsNearestSlab(s, rate) ==
    /\ s \in Slabs
    /\ \A t \in Slabs : Abs(s - rate) <= Abs(t - rate)

WarnedAbout(stdout, rate) ==
    \E k \in 1..Len(stdout) :
        /\ stdout[k].gst_rate = rate
        /\ IsNearestSlab(stdout[k].suggested_rate, rate)

C17_NonSlabRateCreatedAndWarned ==
    gen_read.st = "called" =>
        LET d == gen_read.items_data
            r == gen_read.result
        IN  /\ \A i \in 1..Len(d) :
                   d[i].gst_rate.k = "val" =>
                       (validate_gst_rate(d[i].gst_rate.v)
                           <=> (0 <= d[i].gst_rate.v
                                /\ d[i].gst_rate.v <= Percent(100)))
            /\ r.st = "ok" =>
                   \A i \in 1..Len(d) :
                       (/\ 0 <= RateOf(d[i])
                        /\ RateOf(d[i]) <= Percent(100)
                        /\ RateOf(d[i]) \notin Slabs) =>
                           /\ i <= Len(r.invoice.items)
                           /\ r.invoice.items[i].gst_rate = RateOf(d[i])
                           /\ WarnedAbout(gen_read.stdout, RateOf(d[i]))

(***************************************************************************)
(* C20.  create_invoice fails fast with no partial result: it raises and   *)
(* returns no Invoice, or returns an Invoice with exactly one InvoiceItem  *)
(* per input item, in input order.  It raises when the item list is        *)
(* empty, when an item lacks description, hsn_code, quantity or            *)
(* unit_price, when an HSN code has not 4, 6 or 8 digits, and when an item *)
(* breaks a numeric constraint (quantity > 0, unit_price >= 0, rate in     *)
(* [0,100]); the error of the first such item i is reported as item i's.   *)
(***************************************************************************)
ItemRequiredKeys == {"description", "hsn_code", "quantity", "unit_price"}

LacksRequired(d) == \E f \in ItemRequiredKeys : d[f].k # "val"

HsnDigitCount(h) == Cardinality({k \in 1..Len(h) : h[k] \in Digits})

BadHsn(d) == d.hsn_code.k = "val" /\ HsnDigitCount(d.hsn_code.v) \notin {4, 6, 8}

BreaksNumeric(d) ==
    \/ d.quantity.k = "val" /\ d.quantity.v <= 0
    \/ d.unit_price.k = "val" /\ d.unit_price.v < 0
    \/ d.gst_rate.k = "none"
    \/ d.gst_rate.k = "val"
           /\ (d.gst_rate.v < 0 \/ d.gst_rate.v > Percent(100))

Defective(d) == LacksRequired(d) \/ BadHsn(d) \/ BreaksNumeric(d)

ItemErrorTexts(d) ==
    {"Item " \o f \o " is required" : f \in ItemRequiredKeys}
    \cup {"Invalid HSN code format: " \o join(d.hsn_code.v) :
             x \in IF d.hsn_code.k = "val" THEN {1} ELSE {}}
    \cup {"Quantity must be greater than 0",
          "Unit price cannot be negative",
          "GST rate must be between 0 and 100",
          "float() argument must be a string or a real number, not 'NoneType'"}

\* The party dict passes _create_company / _create_customer.
PartyAccepted(p) ==
    /\ \A f \in {"name", "address", "city", "state", "pincode"} :
           p[f].k = "val" /\ Len(p[f].v) > 0
    /\ (p.gstin.k = "val" /\ p.gstin.v # <<>>) =>
           FirstFailingSegment(upper(remove_spaces(p.gstin.v))) = "none"

ItemMatches(it, d) ==
    /\ it.description = d.description.v
    /\ it.hsn_code = d.hsn_code.v
    /\ it.quantity = d.quantity.v
    /\ it.unit_price = d.unit_price.v
    /\ it.gst_rate = RateOf(d)

C20_CreateInvoiceFailsFast ==
    gen_read.st = "called" =>
        LET d == gen_read.items_data
            r == gen_read.result
            bad == {i \in 1..Len(d) : Defective(d[i])}
            first == CHOOSE i \in bad : \A j \in bad : i <= j
        IN  /\ r.st \in {"raise", "ok"}
            /\ r.st = "raise" => "invoice" \notin DOMAIN r
            /\ r.st = "ok" =>
                   /\ Len(r.invoice.items) = Len(d)
                   /\ \A i \in 1..Len(d) : ItemMatches(r.invoice.items[i], d[i])
            /\ (d = <<>> \/ bad # {}) => r.st = "raise"
            /\ (/\ bad # {}
                /\ PartyAccepted(gen_read.company_data)
                /\ PartyAccepted(gen_read.customer_data)) =>
                   /\ r.st = "raise"
                   /\ \E text \in ItemErrorTexts(d[first]) :
                          r.msg = "Error in item " \o ToString(first) \o ": "
                                      \o text

\* Three items, the second with a two-digit HSN code and the third with
\* quantity 0: the call raises for item 2.
C20_Witness ==
    /\ gen_read.st = "called"
    /\ Len(gen_read.items_data) = 3
    /\ ~Defective(gen_read.items_data[1])
    /\ BadHsn(gen_read.items_data[2])
    /\ BreaksNumeric(gen_read.items_data[3])
    /\ gen_read.result.st = "raise"
    /\ gen_read.result.msg = "Error in item 2: Invalid HSN code format: 84"


(***************************************************************************)
(* C28: calculate_reverse_gst fails with the invalid-input error of        *)
(* calculate_gst_breakdown (a ValueError) for every negative total_amount  *)
(* and every gst_rate outside [0,100], and fails in no other way, a        *)
(* division by zero at gst_rate = -100 included; for valid inputs its      *)
(* result is the breakdown of round2(total_amount / (1 + gst_rate/100)).   *)
(***************************************************************************)
\* taxable (mills, whole paise) is total / (1 + rate/100) rounded half-up to
\* the paisa: with total = k*d + r for the divisor d, the quotient in paise
\* is k*one + r*one/d.
IsReverseTaxable(total, rate, taxable) ==
    LET one  == 100 * RateDen
        d    == (one + rate) * MillsPerPaisa
        k    == total \div d
        r    == total % d
        diff == ((taxable \div MillsPerPaisa) - k * one) * d - r * one
    IN  /\ WholePaise(taxable)
        /\ -d < 2 * diff
        /\ 2 * diff <= d

C28_ReverseFailsOnlyAsBreakdown ==
    (res_revd # NotCalled) =>
        /\ res_revd.st \in {"ok", "raise"}
        /\ (res_revd.st = "raise") <=>
               (gst_amount < 0 \/ ~RateInRange(gst_rate))
        /\ (res_revd.st = "raise") => res_revd.error = "ValueError"
        /\ (res_revd.st = "ok") =>
               /\ IsReverseTaxable(gst_amount, gst_rate,
                                   res_revd.taxable_amount)
               /\ res_revd = calculate_gst_breakdown(res_revd.taxable_amount,
                                                     gst_rate, FALSE)

(***************************************************************************)
(* C23: the item sequence keeps input order.  add_item puts the new item   *)
(* after all the others, remove_item(i) with a valid i deletes exactly the *)
(* i-th item and moves the later ones up by one place, and no read of a    *)
(* total or of the tax summary changes the list.                           *)
(***************************************************************************)
\* A step of add_item or remove_item: both reads are forgotten.
ItemsCallStep == totals_read' = NotCalled /\ tax_summary_read' = NotCalled

ValidIndex(index) == 0 <= index /\ index < Len(items)

AddedLast ==
    /\ Len(items') = Len(items) + 1
    /\ items'[Len(items')] = items_op'.item
    /\ \A j \in 1..Len(items) : items'[j] = items[j]

\* index from 0; items[j] is the item at Python index j - 1.
RemovedExactly(index) ==
    /\ Len(items') = Len(items) - 1
    /\ \A j \in 1..Len(items') :
           items'[j] = IF j <= index THEN items[j] ELSE items[j + 1]

C23_ItemsKeepInputOrder ==
    [][ IF ~ItemsCallStep THEN items' = items
        ELSE IF items_op'.op = "add_item" THEN AddedLast
        ELSE /\ items_op'.op = "remove_item"
             /\ IF ValidIndex(items_op'.index)
                THEN RemovedExactly(items_op'.index)
                ELSE items' = items ]_vars

\* The middle one of three different items was removed.
C23_Witness ==
    /\ items_op.st = "ok"
    /\ items_op.op = "remove_item"
    /\ items_op.index = 1
    /\ Len(items) = 2
    /\ items[1].description = "Rice"
    /\ items[2].description = "Laptop"
    /\ tax_summary_read.st = "ok"

(***************************************************************************)
(* C30: remove_item(i) with an index out of range (i < 0 or i >= the       *)
(* number of items) raises nothing and leaves the list, and so every total *)
(* derived from it, as it was; with a valid index the number of items goes *)
(* down by exactly one.                                                    *)
(***************************************************************************)
DerivedTotals(its) ==
    <<read_totals(Invoice(company, customer, its)),
      get_tax_summary(Invoice(company, customer, its))>>

C30_RemoveOutOfRangeIsNoOp ==
    [][ (ItemsCallStep /\ items_op'.op = "remove_item") =>
            /\ items_op'.st = "ok"
            /\ IF items_op'.index < 0 \/ items_op'.index >= Len(items)
               THEN /\ items' = items
                    /\ DerivedTotals(items') = DerivedTotals(items)
               ELSE Len(items') = Len(items) - 1 ]_vars

\* remove_item(-1) was called on a list of two items, which are still there.
C30_Witness ==
    /\ items_op.st = "ok"
    /\ items_op.op = "remove_item"
    /\ items_op.index = -1
    /\ Len(items) = 2
    /\ totals_read.st = "ok"

(***************************************************************************)
(* C25: for every Invoice with at least one item, intrastate or            *)
(* interstate, total_tax_amount is the sum of the items' total_tax_amount  *)
(* and total_invoice_amount is the sum of the items' total_amount.         *)
(***************************************************************************)
C25_InvoiceTotalsAreItemSums ==
    (totals_read.st = "ok" /\ Len(items) >= 1) =>
        /\ IsValue(totals_read.total_tax_amount, SumOfItems(total_tax_amount))
        /\ IsValue(totals_read.total_invoice_amount, SumOfItems(total_amount))

(***************************************************************************)
(* C26: in every entry of get_tax_summary total_tax is cgst_amount +       *)
(* sgst_amount + igst_amount, and over all the rates the entries'          *)
(* total_tax add up to Invoice.total_tax_amount and their taxable_amount   *)
(* to Invoice.total_taxable_amount.                                        *)
(***************************************************************************)
SumOverEntries(es, field) == SumFromEnd([j \in 1..Len(es) |-> es[j][field]])

C26_SummaryAddsUpToInvoiceTax ==
    (tax_summary_read.st = "ok") =>
        LET es  == tax_summary_read.entries
            inv == Invoice(company, customer, items)
        IN  /\ \A j \in 1..Len(es) :
                   es[j].total_tax = es[j].cgst_amount + es[j].sgst_amount
                                     + es[j].igst_amount
            /\ SumOverEntries(es, "total_tax") = invoice_total_tax_amount(inv).v
            /\ SumOverEntries(es, "taxable_amount")
                   = total_taxable_amount(inv).v

(***************************************************************************)
(* C27: validate_gstin and is_interstate agree on the state code of an ID. *)
(* validate_gstin removes the blanks and upper-cases before it reads the   *)
(* first two characters; when it accepts both the seller's and the buyer's *)
(* ID, is_interstate is false if the two IDs have the same state code so   *)
(* normalised and true if they differ.                                     *)
(***************************************************************************)
GstinAccepted(id) ==
    LET r == validate_gstin(id) IN r.st = "ok" /\ r.is_valid

\* The first two characters of the ID that are not blanks, upper-cased.
NormalizedStateCode(chars) ==
    LET kept == SelectSeq(chars, LAMBDA c : c # " ")
    IN  upper(SubSeq(kept, 1, 2))

C27_InterstateAgreesWithValidatedCode ==
    (/\ interstate_read.st = "ok"
     /\ GstinAccepted(company.gstin)
     /\ GstinAccepted(customer.gstin)) =>
        (interstate_read.value <=>
            NormalizedStateCode(company.gstin.s)
                # NormalizedStateCode(customer.gstin.s))

(***************************************************************************)
(* C29: the two keyword matchers agree.  For every description d           *)
(* auto_suggest_hsn(d) returns a code exactly when                         *)
(* get_multiple_suggestions(d, K) is non-empty for K >= 1, and the code it *)
(* returns is the first entry of that list.                                *)
(***************************************************************************)
SuggestionLimits == { limit \in HsnLimits : limit >= 1 }

MultipleFor(limit) ==
    get_multiple_suggestions(HSN_DATABASE, hsn_read.item_description,
                             limit).list

C29_MatchersAgree ==
    (hsn_read.st = "ok" /\ hsn_read.op = "auto_suggest_hsn") =>
        \A limit \in SuggestionLimits :
            /\ ~hsn_read.result.none <=> MultipleFor(limit) # <<>>
            /\ ~hsn_read.result.none =>
                   hsn_read.result.hsn_code = MultipleFor(limit)[1].hsn_code

(***************************************************************************)
(* C21: an InvoiceItem is immutable once constructed.  No operation        *)
(* available after construction changes its stored fields, so every item   *)
(* of an Invoice satisfies the construction-time constraints quantity > 0, *)
(* unit_price >= 0 and 0 <= gst_rate <= 100 in every reachable state.      *)
(***************************************************************************)
MeetsItemConstraints(it) ==
    /\ it.quantity > 0
    /\ it.unit_price >= 0
    /\ 0 <= it.gst_rate
    /\ it.gst_rate <= Percent(100)

C21_ItemsKeepConstraints ==
    \A k \in 1..Len(items) :
        /\ MeetsItemConstraints(items[k])
        /\ items[k] \in InvoiceItems

(***************************************************************************)
(* C22: the core has no shared mutable state.  A call of add_custom_hsn by *)
(* one caller, interleaved with another caller's running auto_suggest_hsn  *)
(* or get_multiple_suggestions, neither raises an error in the reader nor  *)
(* changes what the reader returns for the catalog it started with.        *)
(***************************************************************************)
ReaderReturned == hsn_read.st = "ok"

\* What the call returns when nothing touches the catalog it started with.
UndisturbedResult ==
    IF hsn_read.op = "auto_suggest_hsn"
    THEN auto_suggest_hsn(hsn_read.catalog, hsn_read.item_description)
    ELSE get_multiple_suggestions(hsn_read.catalog, hsn_read.item_description,
                                  hsn_read.limit)

C22_WriterDoesNotDisturbReader ==
    ReaderReturned =>
        /\ hsn_read.result.st # "raise"
        /\ hsn_read.result = UndisturbedResult

(***************************************************************************)
(* C24: reset_to_defaults restores the defaults.  After the call get(k)    *)
(* returns the built-in default value for every default key path k         *)
(* ('voice.timeout' is 5), whatever set(k, v) calls came before and        *)
(* whether the configuration was loaded from the defaults or merged from   *)
(* a user file that omits a section.                                       *)
(***************************************************************************)
BuiltInDefaults ==
    { <<<<"voice", "timeout">>, Val("5")>>,
      <<<<"gui", "theme">>, Val("dark")>>,
      <<<<"gui", "colors", "primary">>, Val("#2c3e50")>> }

C24_ResetRestoresDefaults ==
    (config_read.st = "ok" /\ config_read.op = "reset_to_defaults") =>
        \A kv \in BuiltInDefaults :
            get(config_manager, kv[1], Val("None")) = kv[2]

=============================================================================
